---------------------------- MODULE Spec2Model ----------------------------
(***************************************************************************)
(* Model of the BVH -> DEF retargeting core of HumanBodyWeb                *)
(* (src/static/viewer/retarget.js, multi-format variant, lines 407-1102).  *)
(*                                                                         *)
(* Numbers.  The code computes with IEEE doubles and stores Float32.  The  *)
(* model computes exactly:                                                 *)
(*   - a quaternion is <<x, y, z, w, n, d>>, the integer vector (x,y,z,w)  *)
(*     times sqrt(n/d); the vector is primitive (gcd 1) and n/d is a       *)
(*     reduced fraction, so equal quaternions have equal representations;  *)
(*     <<0,0,0,0,0,1>> is the zero quaternion and n = -1 marks NaN;        *)
(*   - a vector is <<x, y, z, t>> with integer components; t = 1 for a     *)
(*     number, t = 0 for NaN and t = 2 for JavaScript's null;              *)
(*   - a scalar is a reduced fraction <<n, d>>.                            *)
(* The inputs are drawn from the cubic lattice (axis-aligned offsets,      *)
(* rotations by multiples of 90 degrees), where every square root the      *)
(* code takes is exact, so rounding never enters.                          *)
(***************************************************************************)
EXTENDS Integers, Sequences, FiniteSets, TLC

VARIABLES
    base,           \* the arguments of the call under observation
    args,           \* the arguments of the call in progress
    phase,          \* which call of the run this is: "first", "other", "again"
    pc,             \* position inside retargetBVHToDefClip
    f,              \* the frame index of the per-frame loop
    bvhWorldAnimQ,  \* per-frame BVH world Q cache (name -> quaternion)
    defAnimWorldQ,  \* per-frame animated DEF world Q cache (name -> quaternion)
    outputQuats,    \* defName -> sequence of fc output quaternions
    out,            \* the value returned by the call in progress
    raised,         \* TRUE when the call ended by throwing
    results,        \* <<args, out, raised>> of the calls that returned
    bones,          \* detectBVHFormat: its argument, the source skeleton's bones
    tag,            \* detectBVHFormat: the tag it returned
    skelData,       \* buildDefSkeleton: the skeleton file, [bones]
    swData,         \* buildDefSkeleton: the skin weight file, [bone_names]
    bpc,            \* position inside buildDefSkeleton
    bi,             \* the index of the loop buildDefSkeleton is in
    boneByName,     \* the bones buildDefSkeleton created, in insertion order
    rootBone,       \* buildDefSkeleton's rootBone (0 for null)
    thrown,         \* the exception buildDefSkeleton ended with, "" if none
    mixer,          \* scene viewer: what its mixer animates ("null" for none)
    currentAction,  \* scene viewer: TRUE when currentAction is not null
    playing,        \* scene viewer: its playing flag
    isSkinned,      \* scene viewer: the body mesh is the skinned DEF mesh
    meshLoaded,     \* scene viewer: bodyMesh is set
    rigLoaded,      \* scene viewer: defSkeletonData and skinWeightData are set
    autoPlayed,     \* scene viewer: the default animation has been requested
    inFlight,       \* scene viewer: BVH loads requested and not yet completed
    started,        \* scene viewer: BVH loads requested so far
    moved,          \* scene viewer: a mixer has moved the DEF bones off rest
    calls,          \* scene viewer: its calls of retargetBVHToDefClip
    currentBodyType,  \* result viewer: the body type last asked for
    bodyMesh,         \* result viewer: its bodyMesh (Null for null)
    bodyGeometry,     \* result viewer: the body type of bodyGeometry, or Null
    skinWeightData,   \* result viewer: the body type of the skin weights
    rcIsSkinned,      \* result viewer: its isSkinned flag
    rcMixer,          \* result viewer: TRUE when its mixer is not null
    cachedBvhResult,  \* result viewer: TRUE when a BVH file is cached
    scene,            \* result viewer: the body meshes in the scene
    reloads,          \* result viewer: the switches awaiting their loads
    switches,         \* result viewer: switch requests so far
    loadFailed        \* result viewer: a mesh or weight load has failed

callVars == <<base, args, phase, pc, f, bvhWorldAnimQ, defAnimWorldQ,
              outputQuats, out, raised, results>>
detectVars == <<bones, tag>>
buildVars == <<skelData, swData, bpc, bi, boneByName, rootBone, thrown>>

sceneVars == <<mixer, currentAction, playing, isSkinned, meshLoaded, rigLoaded,
               autoPlayed, inFlight, started, moved, calls>>
resultVars == <<currentBodyType, bodyMesh, bodyGeometry, skinWeightData,
                rcIsSkinned, rcMixer, cachedBvhResult, scene, reloads, switches,
                loadFailed>>
viewerVars == <<sceneVars, resultVars>>

vars == <<callVars, detectVars, buildVars, viewerVars>>

---------------------------------------------------------------------------
(* Exact arithmetic *)

Abs(a) == IF a < 0 THEN -a ELSE a

RECURSIVE GCD(_, _)
GCD(a, b) == IF b = 0 THEN a ELSE GCD(b, a % b)

Rat(n, d) ==
    LET g == GCD(Abs(n), Abs(d))
        s == IF d < 0 THEN -1 ELSE 1
    IN  <<(s * n) \div g, (s * d) \div g>>

RatMul(a, b) == Rat(a[1] * b[1], a[2] * b[2])
RatDiv(a, b) == Rat(a[1] * b[2], a[2] * b[1])
RatAdd(a, b) == Rat(a[1] * b[2] + b[1] * a[2], a[2] * b[2])
RatSub(a, b) == Rat(a[1] * b[2] - b[1] * a[2], a[2] * b[2])
RatLess(a, b) == a[1] * b[2] < b[1] * a[2]
RatMax(a, b) == IF RatLess(a, b) THEN b ELSE a
RatInt(k) == <<k, 1>>

\* the least r with r * r >= k
ISqrt(k) == CHOOSE r \in 0..k : r * r >= k /\ (r = 0 \/ (r - 1) * (r - 1) < k)

---------------------------------------------------------------------------
(* THREE.Quaternion *)

QNaN == <<0, 0, 0, 0, -1, 1>>
QZero == <<0, 0, 0, 0, 0, 1>>
QIdentity == <<0, 0, 0, 1, 1, 1>>

IsNaNQ(q) == q[5] < 0

QNormSq(q) == q[1] * q[1] + q[2] * q[2] + q[3] * q[3] + q[4] * q[4]

\* the quaternion (x, y, z, w) * sqrt(n / d) in canonical form
QCanon(x, y, z, w, n, d) ==
    IF (x = 0 /\ y = 0 /\ z = 0 /\ w = 0) \/ n = 0 THEN QZero
    ELSE LET g == GCD(GCD(Abs(x), Abs(y)), GCD(Abs(z), Abs(w)))
             r == Rat(n * g * g, d)
         IN  <<x \div g, y \div g, z \div g, w \div g, r[1], r[2]>>

\* Quaternion.set(x, y, z, w) with integer components
QSet(x, y, z, w) == QCanon(x, y, z, w, 1, 1)

\* Quaternion.multiply: a * b (Hamilton product)
QMultiply(a, b) ==
    IF IsNaNQ(a) \/ IsNaNQ(b) THEN QNaN
    ELSE QCanon(a[1] * b[4] + a[4] * b[1] + a[2] * b[3] - a[3] * b[2],
                a[2] * b[4] + a[4] * b[2] + a[3] * b[1] - a[1] * b[3],
                a[3] * b[4] + a[4] * b[3] + a[1] * b[2] - a[2] * b[1],
                a[4] * b[4] - a[1] * b[1] - a[2] * b[2] - a[3] * b[3],
                a[5] * b[5], a[6] * b[6])

\* Quaternion.invert: the conjugate (the quaternion is assumed to be unit)
QInvert(q) == IF IsNaNQ(q) THEN QNaN ELSE <<-q[1], -q[2], -q[3], q[4], q[5], q[6]>>

\* Quaternion.normalize: length 0 gives the identity
QNormalize(q) ==
    IF IsNaNQ(q) THEN QNaN
    ELSE IF q = QZero THEN QIdentity
    ELSE <<q[1], q[2], q[3], q[4], 1, QNormSq(q)>>

QNeg(q) == <<-q[1], -q[2], -q[3], -q[4], q[5], q[6]>>

\* norm 1: (x^2 + y^2 + z^2 + w^2) * n / d = 1
QIsUnit(q) == ~IsNaNQ(q) /\ QNormSq(q) * q[5] = q[6]

\* Quaternion.setFromRotationMatrix of the rotation of the unit quaternion q:
\* the extraction fixes the sign (trace > 0: w > 0; otherwise the component on
\* the largest diagonal entry is positive)
QFromRotationMatrix(q) ==
    LET N == QNormSq(q)
        pos == IF 4 * q[4] * q[4] > N THEN q[4] > 0
               ELSE IF q[1] * q[1] > q[2] * q[2] /\ q[1] * q[1] > q[3] * q[3]
                    THEN q[1] > 0
               ELSE IF q[2] * q[2] > q[3] * q[3] THEN q[2] > 0
               ELSE q[3] > 0
    IN  IF IsNaNQ(q) \/ q = QZero THEN q
        ELSE IF pos THEN QNormalize(q) ELSE QNeg(QNormalize(q))

---------------------------------------------------------------------------
(* THREE.Vector3 *)

Vec(x, y, z) == <<x, y, z, 1>>
VNaN == <<0, 0, 0, 0>>
VNull == <<0, 0, 0, 2>>

IsNaNV(v) == v[4] = 0

VLengthSq(v) == v[1] * v[1] + v[2] * v[2] + v[3] * v[3]

VAdd(a, b) == IF IsNaNV(a) \/ IsNaNV(b) THEN VNaN
              ELSE Vec(a[1] + b[1], a[2] + b[2], a[3] + b[3])

VDot(a, b) == a[1] * b[1] + a[2] * b[2] + a[3] * b[3]

\* Vector3.normalize: divideScalar(length() || 1)
VNormalize(v) ==
    IF IsNaNV(v) THEN VNaN
    ELSE IF VLengthSq(v) = 0 THEN v
    ELSE LET l == ISqrt(VLengthSq(v))
         IN  Vec(v[1] \div l, v[2] \div l, v[3] \div l)

\* Vector3.applyQuaternion: the vector part of q * v * conj(q)
VApplyQuaternion(v, q) ==
    IF IsNaNV(v) \/ IsNaNQ(q) THEN VNaN
    ELSE LET x == q[1]  y == q[2]  z == q[3]  w == q[4]
             ix == w * v[1] + y * v[3] - z * v[2]
             iy == w * v[2] + z * v[1] - x * v[3]
             iz == w * v[3] + x * v[2] - y * v[1]
             iw == 0 - x * v[1] - y * v[2] - z * v[3]
             rx == ix * w - iw * x - iy * z + iz * y
             ry == iy * w - iw * y - iz * x + ix * z
             rz == iz * w - iw * z - ix * y + iy * x
         IN  Vec((rx * q[5]) \div q[6], (ry * q[5]) \div q[6], (rz * q[5]) \div q[6])

\* Quaternion.setFromUnitVectors(vFrom, vTo)
QSetFromUnitVectors(vFrom, vTo) ==
    IF IsNaNV(vFrom) \/ IsNaNV(vTo) THEN QNaN
    ELSE LET r == VDot(vFrom, vTo) + 1
         IN  IF r <= 0
             THEN IF Abs(vFrom[1]) > Abs(vFrom[3])
                  THEN QNormalize(QSet(-vFrom[2], vFrom[1], 0, 0))
                  ELSE QNormalize(QSet(0, -vFrom[3], vFrom[2], 0))
             ELSE QNormalize(QSet(vFrom[2] * vTo[3] - vFrom[3] * vTo[2],
                                  vFrom[3] * vTo[1] - vFrom[1] * vTo[3],
                                  vFrom[1] * vTo[2] - vFrom[2] * vTo[1],
                                  r))

---------------------------------------------------------------------------
(* Mapping tables: BVH bone name -> DEF bone name, in the insertion order
   Object.entries reports; Null is JavaScript's null (skip) *)

Null == "null"
Undefined == "undefined"

BVH_TO_DEF_CMU == <<
    <<"Hips", "DEF-spine">>,
    <<"Spine", "DEF-spine.001">>,
    <<"Spine1", "DEF-spine.003">>,
    <<"Neck", Null>>,
    <<"Neck1", "DEF-spine.004">>,
    <<"Head", "DEF-spine.006">>,
    <<"LeftShoulder", "DEF-shoulder.L">>,
    <<"LeftArm", "DEF-upper_arm.L">>,
    <<"LeftForeArm", "DEF-forearm.L">>,
    <<"LeftHand", "DEF-hand.L">>,
    <<"RightShoulder", "DEF-shoulder.R">>,
    <<"RightArm", "DEF-upper_arm.R">>,
    <<"RightForeArm", "DEF-forearm.R">>,
    <<"RightHand", "DEF-hand.R">>,
    <<"LeftUpLeg", "DEF-thigh.L">>,
    <<"LeftLeg", "DEF-shin.L">>,
    <<"LeftFoot", "DEF-foot.L">>,
    <<"LeftToeBase", "DEF-toe.L">>,
    <<"RightUpLeg", "DEF-thigh.R">>,
    <<"RightLeg", "DEF-shin.R">>,
    <<"RightFoot", "DEF-foot.R">>,
    <<"RightToeBase", "DEF-toe.R">>,
    <<"LHipJoint", Null>>,
    <<"RHipJoint", Null>>,
    <<"LowerBack", Null>>,
    <<"LeftFingerBase", Null>>,
    <<"RightFingerBase", Null>>,
    <<"LThumb", Null>>,
    <<"RThumb", Null>>
>>

BVH_TO_DEF_MIXAMO == <<
    <<"Hips", "DEF-spine">>,
    <<"Spine", "DEF-spine.001">>,
    <<"Spine1", "DEF-spine.002">>,
    <<"Spine2", "DEF-spine.003">>,
    <<"Neck", Null>>,
    <<"Neck1", "DEF-spine.004">>,
    <<"Head", "DEF-spine.006">>,
    <<"LeftShoulder", "DEF-shoulder.L">>,
    <<"LeftArm", "DEF-upper_arm.L">>,
    <<"LeftForeArm", "DEF-forearm.L">>,
    <<"LeftHand", "DEF-hand.L">>,
    <<"RightShoulder", "DEF-shoulder.R">>,
    <<"RightArm", "DEF-upper_arm.R">>,
    <<"RightForeArm", "DEF-forearm.R">>,
    <<"RightHand", "DEF-hand.R">>,
    <<"LeftUpLeg", "DEF-thigh.L">>,
    <<"LeftLeg", "DEF-shin.L">>,
    <<"LeftFoot", "DEF-foot.L">>,
    <<"LeftToeBase", "DEF-toe.L">>,
    <<"RightUpLeg", "DEF-thigh.R">>,
    <<"RightLeg", "DEF-shin.R">>,
    <<"RightFoot", "DEF-foot.R">>,
    <<"RightToeBase", "DEF-toe.R">>,
    <<"LeftHandThumb1", "DEF-thumb.01.L">>,
    <<"LeftHandThumb2", "DEF-thumb.02.L">>,
    <<"LeftHandThumb3", "DEF-thumb.03.L">>,
    <<"LeftHandIndex1", "DEF-f_index.01.L">>,
    <<"LeftHandIndex2", "DEF-f_index.02.L">>,
    <<"LeftHandIndex3", "DEF-f_index.03.L">>,
    <<"LeftHandMiddle1", "DEF-f_middle.01.L">>,
    <<"LeftHandMiddle2", "DEF-f_middle.02.L">>,
    <<"LeftHandMiddle3", "DEF-f_middle.03.L">>,
    <<"LeftHandRing1", "DEF-f_ring.01.L">>,
    <<"LeftHandRing2", "DEF-f_ring.02.L">>,
    <<"LeftHandRing3", "DEF-f_ring.03.L">>,
    <<"LeftHandPinky1", "DEF-f_pinky.01.L">>,
    <<"LeftHandPinky2", "DEF-f_pinky.02.L">>,
    <<"LeftHandPinky3", "DEF-f_pinky.03.L">>,
    <<"RightHandThumb1", "DEF-thumb.01.R">>,
    <<"RightHandThumb2", "DEF-thumb.02.R">>,
    <<"RightHandThumb3", "DEF-thumb.03.R">>,
    <<"RightHandIndex1", "DEF-f_index.01.R">>,
    <<"RightHandIndex2", "DEF-f_index.02.R">>,
    <<"RightHandIndex3", "DEF-f_index.03.R">>,
    <<"RightHandMiddle1", "DEF-f_middle.01.R">>,
    <<"RightHandMiddle2", "DEF-f_middle.02.R">>,
    <<"RightHandMiddle3", "DEF-f_middle.03.R">>,
    <<"RightHandRing1", "DEF-f_ring.01.R">>,
    <<"RightHandRing2", "DEF-f_ring.02.R">>,
    <<"RightHandRing3", "DEF-f_ring.03.R">>,
    <<"RightHandPinky1", "DEF-f_pinky.01.R">>,
    <<"RightHandPinky2", "DEF-f_pinky.02.R">>,
    <<"RightHandPinky3", "DEF-f_pinky.03.R">>
>>

BVH_TO_DEF_MOCAPNET == <<
    <<"hip", "DEF-spine">>,
    <<"abdomen", "DEF-spine.001">>,
    <<"chest", "DEF-spine.003">>,
    <<"neck1", "DEF-spine.004">>,
    <<"head", "DEF-spine.006">>,
    <<"lcollar", "DEF-shoulder.L">>,
    <<"rcollar", "DEF-shoulder.R">>,
    <<"lshoulder", "DEF-upper_arm.L">>,
    <<"rshoulder", "DEF-upper_arm.R">>,
    <<"lelbow", "DEF-forearm.L">>,
    <<"relbow", "DEF-forearm.R">>,
    <<"lhand", "DEF-hand.L">>,
    <<"rhand", "DEF-hand.R">>,
    <<"lhip", "DEF-thigh.L">>,
    <<"rhip", "DEF-thigh.R">>,
    <<"lknee", "DEF-shin.L">>,
    <<"rknee", "DEF-shin.R">>,
    <<"lfoot", "DEF-foot.L">>,
    <<"rfoot", "DEF-foot.R">>,
    <<"toe1-1.l", "DEF-toe.L">>,
    <<"toe1-1.r", "DEF-toe.R">>,
    <<"lCollar", "DEF-shoulder.L">>,
    <<"rCollar", "DEF-shoulder.R">>,
    <<"lShldr", "DEF-upper_arm.L">>,
    <<"rShldr", "DEF-upper_arm.R">>,
    <<"lForeArm", "DEF-forearm.L">>,
    <<"rForeArm", "DEF-forearm.R">>,
    <<"lHand", "DEF-hand.L">>,
    <<"rHand", "DEF-hand.R">>,
    <<"lThigh", "DEF-thigh.L">>,
    <<"rThigh", "DEF-thigh.R">>,
    <<"lShin", "DEF-shin.L">>,
    <<"rShin", "DEF-shin.R">>,
    <<"lFoot", "DEF-foot.L">>,
    <<"rFoot", "DEF-foot.R">>,
    <<"lButtock", Null>>,
    <<"rButtock", Null>>,
    <<"toe1-1.L", "DEF-toe.L">>,
    <<"toe1-1.R", "DEF-toe.R">>,
    <<"lthumb", "DEF-thumb.01.L">>,
    <<"finger1-2.l", "DEF-thumb.02.L">>,
    <<"finger1-3.l", "DEF-thumb.03.L">>,
    <<"finger2-1.l", "DEF-f_index.01.L">>,
    <<"finger2-2.l", "DEF-f_index.02.L">>,
    <<"finger2-3.l", "DEF-f_index.03.L">>,
    <<"finger3-1.l", "DEF-f_middle.01.L">>,
    <<"finger3-2.l", "DEF-f_middle.02.L">>,
    <<"finger3-3.l", "DEF-f_middle.03.L">>,
    <<"finger4-1.l", "DEF-f_ring.01.L">>,
    <<"finger4-2.l", "DEF-f_ring.02.L">>,
    <<"finger4-3.l", "DEF-f_ring.03.L">>,
    <<"finger5-1.l", "DEF-f_pinky.01.L">>,
    <<"finger5-2.l", "DEF-f_pinky.02.L">>,
    <<"finger5-3.l", "DEF-f_pinky.03.L">>,
    <<"rthumb", "DEF-thumb.01.R">>,
    <<"finger1-2.r", "DEF-thumb.02.R">>,
    <<"finger1-3.r", "DEF-thumb.03.R">>,
    <<"finger2-1.r", "DEF-f_index.01.R">>,
    <<"finger2-2.r", "DEF-f_index.02.R">>,
    <<"finger2-3.r", "DEF-f_index.03.R">>,
    <<"finger3-1.r", "DEF-f_middle.01.R">>,
    <<"finger3-2.r", "DEF-f_middle.02.R">>,
    <<"finger3-3.r", "DEF-f_middle.03.R">>,
    <<"finger4-1.r", "DEF-f_ring.01.R">>,
    <<"finger4-2.r", "DEF-f_ring.02.R">>,
    <<"finger4-3.r", "DEF-f_ring.03.R">>,
    <<"finger5-1.r", "DEF-f_pinky.01.R">>,
    <<"finger5-2.r", "DEF-f_pinky.02.R">>,
    <<"finger5-3.r", "DEF-f_pinky.03.R">>,
    <<"metacarpal1.l", "DEF-palm.01.L">>,
    <<"metacarpal2.l", "DEF-palm.02.L">>,
    <<"metacarpal3.l", "DEF-palm.03.L">>,
    <<"metacarpal4.l", "DEF-palm.04.L">>,
    <<"metacarpal1.r", "DEF-palm.01.R">>,
    <<"metacarpal2.r", "DEF-palm.02.R">>,
    <<"metacarpal3.r", "DEF-palm.03.R">>,
    <<"metacarpal4.r", "DEF-palm.04.R">>,
    <<"jaw", "DEF-jaw">>,
    <<"tongue01", "DEF-tongue">>,
    <<"tongue02", "DEF-tongue.001">>,
    <<"tongue03", "DEF-tongue.002">>,
    <<"eye.l", "MCH-eye.L">>,
    <<"eye.r", "MCH-eye.R">>,
    <<"oris04.l", "DEF-lip.T.L">>,
    <<"oris04.r", "DEF-lip.T.R">>,
    <<"oris03.l", "DEF-lip.T.L.001">>,
    <<"oris03.r", "DEF-lip.T.R.001">>,
    <<"oris06.l", "DEF-lip.B.L">>,
    <<"oris06.r", "DEF-lip.B.R">>,
    <<"oris07.l", "DEF-lip.B.L.001">>,
    <<"oris07.r", "DEF-lip.B.R.001">>,
    <<"orbicularis03.l", "DEF-lid.T.L">>,
    <<"orbicularis03.r", "DEF-lid.T.R">>,
    <<"orbicularis04.l", "DEF-lid.B.L">>,
    <<"orbicularis04.r", "DEF-lid.B.R">>
>>

BVH_TO_DEF_AIST == <<
    <<"Pelvis", "DEF-spine">>,
    <<"Spine1", "DEF-spine.001">>,
    <<"Spine2", "DEF-spine.002">>,
    <<"Spine3", "DEF-spine.003">>,
    <<"Neck", "DEF-spine.004">>,
    <<"Head", "DEF-spine.006">>,
    <<"Left_collar", "DEF-shoulder.L">>,
    <<"Left_shoulder", "DEF-upper_arm.L">>,
    <<"Left_elbow", "DEF-forearm.L">>,
    <<"Left_wrist", "DEF-hand.L">>,
    <<"Left_palm", Null>>,
    <<"Right_collar", "DEF-shoulder.R">>,
    <<"Right_shoulder", "DEF-upper_arm.R">>,
    <<"Right_elbow", "DEF-forearm.R">>,
    <<"Right_wrist", "DEF-hand.R">>,
    <<"Right_palm", Null>>,
    <<"Left_hip", "DEF-thigh.L">>,
    <<"Left_knee", "DEF-shin.L">>,
    <<"Left_ankle", "DEF-foot.L">>,
    <<"Left_foot", "DEF-toe.L">>,
    <<"Right_hip", "DEF-thigh.R">>,
    <<"Right_knee", "DEF-shin.R">>,
    <<"Right_ankle", "DEF-foot.R">>,
    <<"Right_foot", "DEF-toe.R">>
>>

BVH_TO_DEF_BANDAI == <<
    <<"Hips", "DEF-spine">>,
    <<"Spine", "DEF-spine.001">>,
    <<"Chest", "DEF-spine.003">>,
    <<"Neck", "DEF-spine.004">>,
    <<"Head", "DEF-spine.006">>,
    <<"Shoulder_L", "DEF-shoulder.L">>,
    <<"UpperArm_L", "DEF-upper_arm.L">>,
    <<"LowerArm_L", "DEF-forearm.L">>,
    <<"Hand_L", "DEF-hand.L">>,
    <<"Shoulder_R", "DEF-shoulder.R">>,
    <<"UpperArm_R", "DEF-upper_arm.R">>,
    <<"LowerArm_R", "DEF-forearm.R">>,
    <<"Hand_R", "DEF-hand.R">>,
    <<"UpperLeg_L", "DEF-thigh.L">>,
    <<"LowerLeg_L", "DEF-shin.L">>,
    <<"Foot_L", "DEF-foot.L">>,
    <<"Toes_L", "DEF-toe.L">>,
    <<"UpperLeg_R", "DEF-thigh.R">>,
    <<"LowerLeg_R", "DEF-shin.R">>,
    <<"Foot_R", "DEF-foot.R">>,
    <<"Toes_R", "DEF-toe.R">>,
    <<"joint_Root", Null>>
>>

---------------------------------------------------------------------------
(* The arguments of retargetBVHToDefClip(bvhResult, defSkel, format, opts).

   bvhResult.skeleton: [nodes, bones].  nodes is the Object3D table of the
   source hierarchy, each node [name, isBone, position, quaternion, children]
   with children a sequence of node indices in child order; bones is
   skeleton.bones, a sequence of node indices (bones[1] is bvhBones[0]).
   bvhResult.clip: [duration, tracks], each track [name, times, values]; a
   track name is the sequence of its dot-separated segments, values holds one
   quaternion or one vector per keyframe (the code's flat array, by fours or
   by threes).
   defSkel: [bones, wrapQ]; bones lists boneByName in insertion order, each
   bone [orig, name, parent, quaternion, position] where orig is the key in
   boneByName, name is bone.name and parent is the parent's key, NoParent,
   or Wrapper for a parent object that is not in boneByName (the skinned
   mesh the root bone is added to), whose world rotation is wrapQ.
   opts: [bodyMesh, skipDefBones]; bodyMesh is [present, minY, maxY], the
   vertical extent of the mesh's bounding box. *)

Formats == {"CMU", "MIXAMO", "BANDAI", "AIST", "MOCAPNET", "UNKNOWN"}

NoParent == "(none)"
Wrapper == "(mesh)"

RotX90 == QNormalize(QSet(1, 0, 0, 1))
RotY90 == QNormalize(QSet(0, 1, 0, 1))
RotZ90 == QNormalize(QSet(0, 0, 1, 1))

RECURSIVE QPow(_, _)
QPow(q, k) == IF k = 0 THEN QIdentity ELSE QMultiply(QPow(q, k - 1), q)

\* the longest clip of the model, in frames
MaxFrames == 2

\* the joint names each naming convention gives the roles of the model's
\* source skeletons; the UNKNOWN rig has a root the MocapNET table does not know
NameOf(format, role) ==
    CASE format \in {"CMU", "MIXAMO"} ->
           [root |-> "Hips", spine |-> "Spine", head |-> "Head",
            thigh |-> "LeftUpLeg"][role]
      [] format = "BANDAI" ->
           [root |-> "Hips", spine |-> "Spine", head |-> "Head",
            thigh |-> "UpperLeg_L"][role]
      [] format = "AIST" ->
           [root |-> "Pelvis", spine |-> "Spine1", head |-> "Head",
            thigh |-> "Left_hip"][role]
      [] format = "MOCAPNET" ->
           [root |-> "hip", spine |-> "abdomen", head |-> "head",
            thigh |-> "lhip"][role]
      [] OTHER ->
           [root |-> "Root", spine |-> "abdomen", head |-> "head",
            thigh |-> "lThigh"][role]

Node(name, position, children) ==
    [name |-> name, isBone |-> TRUE, position |-> position,
     quaternion |-> QIdentity, children |-> children]

SrcShapes == {"chain", "side", "detached", "missing", "fork", "point"}

\* the other spelling of the left thigh in the MocapNET table
AliasName(format) == IF NameOf(format, "thigh") = "lThigh" THEN "lhip" ELSE "lThigh"

\* a source bone as a caller has posed it
Turned(node, q) == [node EXCEPT !.quaternion = q]

\* A source skeleton as BVHLoader builds it: root -> (thigh, spine -> head ->
\* ENDSITE).  "side": the head's end site points sideways.  "detached": the
\* head is listed in skeleton.bones but hangs under no parent.  "missing": the
\* rig has no spine joint.  "fork": the head has two children, LeftEye and
\* RightEye, at right angles to each other.  "point": the spine and the head
\* have zero offsets.  "angled": the chain with the thigh, the root's first
\* child, turned 90 degrees about X.  "alias": the thigh has a child that goes
\* by the other spelling of the thigh's name.  The Bandai rig has the extra root joint_Root, whose
\* first child is a prop joint no table knows.
SrcSkeleton(format, shape) ==
    LET o == IF format = "BANDAI" THEN 2 ELSE 0
        endDir == IF shape = "side" THEN Vec(2, 0, 0) ELSE Vec(0, 1, 0)
        top == IF format = "BANDAI"
               THEN << Node("joint_Root", Vec(0, 0, 0), <<2, 3>>),
                       Node("Prop", Vec(1, 0, 0), << >>) >>
               ELSE << >>
        body ==
          IF shape = "missing"
          THEN << Node(NameOf(format, "root"), Vec(0, 0, 0), <<o + 2, o + 3>>),
                  Node(NameOf(format, "thigh"), Vec(0, -2, 0), << >>),
                  Node(NameOf(format, "head"), Vec(0, 2, 0), <<o + 4>>),
                  Node("ENDSITE", endDir, << >>) >>
          ELSE << Node(NameOf(format, "root"), Vec(0, 0, 0), <<o + 2, o + 3>>),
                  Turned(Node(NameOf(format, "thigh"), Vec(0, -2, 0),
                              IF shape = "alias" THEN <<o + 6>> ELSE << >>),
                         IF shape = "angled" THEN RotX90 ELSE QIdentity),
                  Node(NameOf(format, "spine"),
                       IF shape = "point" THEN Vec(0, 0, 0) ELSE Vec(0, 1, 0),
                       IF shape = "detached" THEN << >> ELSE <<o + 4>>),
                  Node(NameOf(format, "head"),
                       IF shape = "point" THEN Vec(0, 0, 0) ELSE Vec(0, 1, 0),
                       IF shape = "fork" THEN <<o + 5, o + 6>> ELSE <<o + 5>>),
                  Node(IF shape = "fork" THEN "LeftEye" ELSE "ENDSITE",
                       IF shape = "fork" THEN Vec(2, 0, 0) ELSE endDir, << >>) >>
               \o (IF shape = "fork"
                   THEN << Node("RightEye", Vec(0, 0, 1), << >>) >>
                   ELSE IF shape = "alias"
                   THEN << Node(AliasName(format), Vec(1, 0, 0), << >>) >>
                   ELSE << >>)
        nodes == top \o body
    IN  [nodes |-> nodes, bones |-> [i \in 1..Len(nodes) |-> i]]

Motions == {"rest", "const", "move", "scaled"}
TrackSets == {"all", "noSpineTrack", "noQuat"}

\* the rotation sample of a joint at frame k (from 0) under each motion;
\* "scaled" has samples that are not unit length
QuatSample(motion, role, k) ==
    LET axis == [root |-> RotY90, spine |-> RotX90, head |-> RotZ90,
                 thigh |-> RotX90, top |-> RotY90, alias |-> RotZ90][role]
    IN  CASE motion = "rest"   -> QIdentity
          [] motion = "const"  -> axis
          [] motion = "move"   -> QPow(axis, k + 1)
          [] OTHER             -> QMultiply(QSet(0, 0, 0, 2), QPow(axis, k))

PosSample(k) == Vec(1 + k, 2 + 2 * k, 0 - k)

\* The clip BVHLoader builds: per joint (end sites excepted) a position track
\* and a quaternion track over the same F timestamps 0, 1, ..., F-1; the
\* duration is the last timestamp.  "noSpineTrack" drops the spine's
\* quaternion track, "noQuat" every quaternion track.
SrcClip(format, shape, motion, trackSet, F) ==
    LET roles == (IF format = "BANDAI" THEN <<"top">> ELSE << >>)
                 \o <<"root", "thigh">>
                 \o (IF shape = "missing" THEN << >> ELSE <<"spine">>)
                 \o <<"head">>
                 \o (IF shape = "alias" THEN <<"alias">> ELSE << >>)
        nm(role) == IF role = "top" THEN "joint_Root"
                    ELSE IF role = "alias" THEN AliasName(format)
                    ELSE NameOf(format, role)
        times == [k \in 1..F |-> k - 1]
        pos(role) == [name |-> <<nm(role), "position">>, times |-> times,
                      values |-> [k \in 1..F |-> PosSample(k - 1)]]
        rot(role) == [name |-> <<nm(role), "quaternion">>, times |-> times,
                      values |-> [k \in 1..F |-> QuatSample(motion, role, k - 1)]]
        hasRot(role) == /\ trackSet # "noQuat"
                        /\ ~(trackSet = "noSpineTrack" /\ role = "spine")
        RECURSIVE build(_)
        build(i) == IF i > Len(roles) THEN << >>
                    ELSE <<pos(roles[i])>>
                         \o (IF hasRot(roles[i]) THEN <<rot(roles[i])>> ELSE << >>)
                         \o build(i + 1)
    IN  [duration |-> IF F = 0 THEN 0 ELSE F - 1, tracks |-> build(1)]

DefBone(orig, name, parent, q, position) ==
    [orig |-> orig, name |-> name, parent |-> parent, quaternion |-> q,
     position |-> position]

TgtShapes == {"rsh", "rig"}

\* Target skeletons as buildDefSkeleton builds them.  "rsh": root, spine and
\* head, the head's rest rotation 90 degrees about X.  "rig": a piece of the
\* DEF rig under the skinned mesh, listed child before parent, with the
\* never-mapped DEF-spine.005 between spine and head.
DefSkeleton(shape) ==
    IF shape = "rsh"
    THEN [wrapQ |-> QIdentity,
          bones |-> <<
            DefBone("DEF-spine", "DEF-spine", NoParent, QIdentity, Vec(0, 4, 0)),
            DefBone("DEF-spine.001", "DEF-spine_001", "DEF-spine", QIdentity,
                    Vec(0, 1, 0)),
            DefBone("DEF-spine.006", "DEF-spine_006", "DEF-spine.001", RotX90,
                    Vec(0, 1, 0)) >>]
    ELSE [wrapQ |-> RotX90,
          bones |-> <<
            DefBone("DEF-spine.006", "DEF-spine_006", "DEF-spine.005", RotX90,
                    Vec(0, 1, 0)),
            DefBone("DEF-spine", "DEF-spine", Wrapper, QIdentity, Vec(0, 5, 1)),
            DefBone("DEF-thigh.L", "DEF-thigh_L", "DEF-spine",
                    QMultiply(RotX90, RotX90), Vec(1, 0, 0)),
            DefBone("DEF-spine.005", "DEF-spine_005", "DEF-spine.001", RotX90,
                    Vec(0, 1, 0)),
            DefBone("DEF-spine.001", "DEF-spine_001", "DEF-spine", RotX90,
                    Vec(0, 1, 0)) >>]

NoMesh == [present |-> FALSE, minY |-> 0, maxY |-> 0]
Mesh(lo, hi) == [present |-> TRUE, minY |-> lo, maxY |-> hi]

\* opts: no body mesh; a mesh 2 high; a mesh 4 high; a mesh with an empty
\* bounding box; and the head kept out of the mapping by skipDefBones
OptsSet ==
    { [bodyMesh |-> NoMesh, skipDefBones |-> {}],
      [bodyMesh |-> Mesh(0, 2), skipDefBones |-> {}],
      [bodyMesh |-> Mesh(-1, 3), skipDefBones |-> {}],
      [bodyMesh |-> Mesh(1, 0), skipDefBones |-> {"DEF-spine.001"}],
      [bodyMesh |-> Mesh(0, 2), skipDefBones |-> {"DEF-spine.006"}] }

MkArgs(format, src, motion, trackSet, F, tgt, opts) ==
    [bvhResult |-> [skeleton |-> SrcSkeleton(format, src),
                    clip |-> SrcClip(format, src, motion, trackSet, F)],
     defSkel |-> DefSkeleton(tgt),
     format |-> format,
     opts |-> opts]

PlainOpts == [bodyMesh |-> NoMesh, skipDefBones |-> {}]

\* every source shape under every motion, onto the root-spine-head target
PoseInputs ==
    { MkArgs(fm, src, mo, "all", MaxFrames, "rsh", PlainOpts) :
        fm \in Formats, src \in SrcShapes, mo \in Motions }

\* every track set at every clip length
TrackInputs ==
    { MkArgs(fm, "chain", "move", ts, F, "rsh", PlainOpts) :
        fm \in Formats, ts \in TrackSets, F \in 0..MaxFrames }

\* every target and every opts
TargetInputs ==
    { MkArgs(fm, src, mo, "all", MaxFrames, tgt, o) :
        fm \in Formats, src \in {"chain", "detached"}, mo \in {"rest", "move"},
        tgt \in TgtShapes, o \in OptsSet }

\* a source skeleton handed over with a posed bone
AngledInputs ==
    { MkArgs(fm, "angled", "move", "all", MaxFrames, "rsh", o) :
        fm \in Formats, o \in {PlainOpts, [bodyMesh |-> Mesh(0, 2), skipDefBones |-> {}]} }

\* a source skeleton with a joint under both spellings of its name, onto the
\* target with a thigh
AliasInputs ==
    { MkArgs(fm, "alias", mo, "all", MaxFrames, "rig", PlainOpts) :
        fm \in Formats, mo \in {"const", "move"} }

Inputs ==
    PoseInputs \cup TrackInputs \cup TargetInputs \cup AngledInputs \cup AliasInputs

---------------------------------------------------------------------------
(* retargetBVHToDefClip: the part computed once per call (lines 735-981) *)

\* property maps ({} objects keyed by name): a function on the keys written
NoKeys == << >>
Has(m, k) == k \in DOMAIN m
Put(m, k, v) == (k :> v) @@ m

MappingFor(format) ==
    CASE format = "CMU"    -> BVH_TO_DEF_CMU
      [] format = "MIXAMO" -> BVH_TO_DEF_MIXAMO
      [] format = "BANDAI" -> BVH_TO_DEF_BANDAI
      [] format = "AIST"   -> BVH_TO_DEF_AIST
      [] OTHER             -> BVH_TO_DEF_MOCAPNET

\* mapping[name]: the table's value, Undefined when the table has no such key
MappingAt(mapping, name) ==
    IF \E i \in 1..Len(mapping) : mapping[i][1] = name
    THEN mapping[CHOOSE i \in 1..Len(mapping) : mapping[i][1] = name][2]
    ELSE Undefined

Truthy(s) == s # Null /\ s # Undefined /\ s # ""

\* defSkel.boneByName[orig]: the index of the bone in defSkel.bones, 0 if absent
DefIndex(defSkel, orig) ==
    IF \E i \in 1..Len(defSkel.bones) : defSkel.bones[i].orig = orig
    THEN CHOOSE i \in 1..Len(defSkel.bones) : defSkel.bones[i].orig = orig
    ELSE 0

DefNames(defSkel) == [i \in 1..Len(defSkel.bones) |-> defSkel.bones[i].orig]

\* origNameByBone.get(bone.parent): the parent's key, Undefined when the bone
\* has no parent or its parent is not in boneByName
ParentOrigName(defSkel, orig) ==
    LET p == defSkel.bones[DefIndex(defSkel, orig)].parent
    IN  IF DefIndex(defSkel, p) # 0 THEN p ELSE Undefined

\* the rotation of matrixWorld: the product of the local rotations down the
\* parent chain, the wrapper object included
RECURSIVE WorldRotation(_, _)
WorldRotation(defSkel, orig) ==
    IF orig = Wrapper THEN defSkel.wrapQ
    ELSE LET b == defSkel.bones[DefIndex(defSkel, orig)]
         IN  IF b.parent = NoParent THEN b.quaternion
             ELSE QMultiply(WorldRotation(defSkel, b.parent), b.quaternion)

\* Object3D.getWorldQuaternion: matrixWorld decomposed
GetWorldQuaternion(defSkel, orig) ==
    QFromRotationMatrix(WorldRotation(defSkel, orig))

defWorldRestQ(a, orig) == GetWorldQuaternion(a.defSkel, orig)

\* defParentWorldRestQ has an entry for every bone with a parent object
HasParentWorldRestQ(a, orig) ==
    a.defSkel.bones[DefIndex(a.defSkel, orig)].parent # NoParent

defParentWorldRestQ(a, orig) ==
    GetWorldQuaternion(a.defSkel, a.defSkel.bones[DefIndex(a.defSkel, orig)].parent)

defRestLocalQ(a, orig) ==
    IF HasParentWorldRestQ(a, orig)
    THEN QMultiply(QInvert(defParentWorldRestQ(a, orig)), defWorldRestQ(a, orig))
    ELSE defWorldRestQ(a, orig)

\* bvhBones and bvhBoneByName (a later bone of the same name replaces an
\* earlier one): the node index, 0 if no bone has the name
bvhBones(a) == a.bvhResult.skeleton.bones
bvhNodes(a) == a.bvhResult.skeleton.nodes

bvhBoneByName(a, name) ==
    LET hits == {i \in 1..Len(bvhBones(a)) : bvhNodes(a)[bvhBones(a)[i]].name = name}
    IN  IF hits = {} THEN 0
        ELSE bvhBones(a)[CHOOSE i \in hits : \A j \in hits : j <= i]

bvhRoot(a) == bvhBones(a)[1]

\* collectBvhHierarchy: the preorder walk over bone children; each visit is
\* <<name, parent name>> (Undefined for the root)
RECURSIVE collectBvhHierarchy(_, _, _)
RECURSIVE collectChildren(_, _, _)
collectBvhHierarchy(nodes, i, parentName) ==
    << <<nodes[i].name, parentName>> >> \o collectChildren(nodes, i, 1)
collectChildren(nodes, i, k) ==
    IF k > Len(nodes[i].children) THEN << >>
    ELSE LET c == nodes[i].children[k]
         IN  (IF nodes[c].isBone
              THEN collectBvhHierarchy(nodes, c, nodes[i].name)
              ELSE << >>)
             \o collectChildren(nodes, i, k + 1)

Visits(a) == collectBvhHierarchy(bvhNodes(a), bvhRoot(a), Undefined)

bvhBonesSorted(a) == [i \in 1..Len(Visits(a)) |-> Visits(a)[i][1]]

\* bvhBoneParentName[name]: written at each visit of a child, the last write
\* stays; Undefined when never written
bvhBoneParentName(a, name) ==
    LET v == Visits(a)
        hits == {i \in 2..Len(v) : v[i][1] = name}
    IN  IF hits = {} THEN Undefined
        ELSE v[CHOOSE i \in hits : \A j \in hits : j <= i][2]

\* a mapping filter that forgets opts.skipDefBones
MatchesIgnoringSkip(a, entry) ==
    /\ Truthy(entry[2])
    /\ bvhBoneByName(a, entry[1]) # 0
    /\ DefIndex(a.defSkel, entry[2]) # 0

\* a mapping filter that asks for the source joint's rotation track instead of
\* the source joint
MatchesByTrack(a, entry) ==
    /\ Truthy(entry[2])
    /\ \E i \in 1..Len(a.bvhResult.clip.tracks) :
          a.bvhResult.clip.tracks[i].name = <<entry[1], "quaternion">>
    /\ DefIndex(a.defSkel, entry[2]) # 0
    /\ entry[2] \notin a.opts.skipDefBones

\* the mapping filter of lines 787-793
Matches(a, entry) ==
    /\ Truthy(entry[2])
    /\ bvhBoneByName(a, entry[1]) # 0
    /\ DefIndex(a.defSkel, entry[2]) # 0
    /\ entry[2] \notin a.opts.skipDefBones

\* a mapping in which the first matching entry of the table stays
defToBvhNameFirstWins(a, defName) ==
    LET mapping == MappingFor(a.format)
        hits == {i \in 1..Len(mapping) :
                    mapping[i][2] = defName /\ Matches(a, mapping[i])}
    IN  IF hits = {} THEN Undefined
        ELSE mapping[CHOOSE i \in hits : \A j \in hits : i <= j][1]

\* defToBvhName[defName]: the last matching entry of the table writes it
defToBvhName(a, defName) ==
    LET mapping == MappingFor(a.format)
        hits == {i \in 1..Len(mapping) :
                    mapping[i][2] = defName /\ Matches(a, mapping[i])}
    IN  IF hits = {} THEN Undefined
        ELSE mapping[CHOOSE i \in hits : \A j \in hits : j <= i][1]

\* mappedDefNames: the keys of defToBvhName in insertion order, that is the
\* targets of the matching entries, each at its first matching entry
FirstMatches(a) ==
    LET mapping == MappingFor(a.format)
        hits == {i \in 1..Len(mapping) : Matches(a, mapping[i])}
    IN  {i \in hits : \A j \in hits : j < i => mapping[j][2] # mapping[i][2]}

mappedDefNames(a) ==
    LET mapping == MappingFor(a.format)
        firsts == FirstMatches(a)
    IN  [k \in 1..Cardinality(firsts) |->
            mapping[CHOOSE i \in firsts :
                        Cardinality({j \in firsts : j <= i}) = k][2]]

IsMapped(a, defName) == \E k \in 1..Len(mappedDefNames(a)) : mappedDefNames(a)[k] = defName

\* track.name split at its last dot: the bone name is what precedes it
RECURSIVE JoinDots(_)
JoinDots(segs) ==
    IF Len(segs) = 1 THEN segs[1]
    ELSE JoinDots(SubSeq(segs, 1, Len(segs) - 1)) \o "." \o segs[Len(segs)]

HasDot(track) == Len(track.name) >= 2
TrackBone(track) == JoinDots(SubSeq(track.name, 1, Len(track.name) - 1))
TrackProp(track) == track.name[Len(track.name)]

\* bvhQuatTracks / bvhPosTracks: the index in clip.tracks of the track kept for
\* a bone name (the last one parsed), 0 if none
TrackIndex(a, boneName, prop) ==
    LET tracks == a.bvhResult.clip.tracks
        hits == {i \in 1..Len(tracks) :
                    /\ HasDot(tracks[i])
                    /\ TrackBone(tracks[i]) = boneName
                    /\ TrackProp(tracks[i]) = prop}
    IN  IF hits = {} THEN 0 ELSE CHOOSE i \in hits : \A j \in hits : j <= i

bvhQuatTracks(a, boneName) == TrackIndex(a, boneName, "quaternion")
bvhPosTracks(a, boneName) == TrackIndex(a, boneName, "position")

TrackAt(a, i) == a.bvhResult.clip.tracks[i]

\* a keyframe of a track; reading past the end of the array gives undefined,
\* which Quaternion.set turns into NaN components
SampleQ(track, k) == IF k < Len(track.values) THEN track.values[k + 1] ELSE QNaN

\* a first track taken from all tracks, position tracks included
firstTrackOfAny(a) == IF Len(a.bvhResult.clip.tracks) = 0 THEN 0 ELSE 1

\* Object.values(bvhQuatTracks)[0]: the track kept for the first key inserted
firstTrack(a) ==
    LET tracks == a.bvhResult.clip.tracks
        quats == {i \in 1..Len(tracks) :
                    HasDot(tracks[i]) /\ TrackProp(tracks[i]) = "quaternion"}
    IN  IF quats = {} THEN 0
        ELSE bvhQuatTracks(a, TrackBone(tracks[CHOOSE i \in quats :
                                                  \A j \in quats : i <= j]))

times(a) == TrackAt(a, firstTrack(a)).times
fc(a) == Len(times(a))

\* accBvhWorldPos: the walk that grows skelBox; st is [empty, minY, maxY, tmpQ2],
\* the box and the temporary _tmpQ2 that all the activations share
ExpandByPoint(st, p) ==
    IF st.empty THEN [st EXCEPT !.empty = FALSE, !.minY = p[2], !.maxY = p[2]]
    ELSE [st EXCEPT !.minY = IF p[2] < st.minY THEN p[2] ELSE st.minY,
                    !.maxY = IF p[2] > st.maxY THEN p[2] ELSE st.maxY]

RECURSIVE accBvhWorldPos(_, _, _, _, _)
RECURSIVE accChildren(_, _, _, _, _)
accBvhWorldPos(nodes, i, parentWQ, parentWP, st) ==
    LET wp == VAdd(parentWP, VApplyQuaternion(nodes[i].position, parentWQ))
        st1 == [ExpandByPoint(st, wp) EXCEPT
                   !.tmpQ2 = QMultiply(parentWQ, nodes[i].quaternion)]
    IN  accChildren(nodes, i, 1, wp, st1)
accChildren(nodes, i, k, wp, st) ==
    IF k > Len(nodes[i].children) THEN st
    ELSE LET c == nodes[i].children[k]
         IN  accChildren(nodes, i, k + 1, wp,
                         IF nodes[c].isBone
                         THEN accBvhWorldPos(nodes, c, st.tmpQ2, wp, st)
                         ELSE st)

skelBox(a) ==
    accBvhWorldPos(bvhNodes(a), bvhRoot(a), QIdentity, Vec(0, 0, 0),
                   [empty |-> TRUE, minY |-> 0, maxY |-> 0, tmpQ2 |-> QIdentity])

MinHeight == Rat(1, 100)
DefaultBodyH == Rat(168, 100)

bvhHeight(a) == RatMax(RatInt(skelBox(a).maxY - skelBox(a).minY), MinHeight)

bodyH(a) ==
    LET m == a.opts.bodyMesh
    IN  IF m.present /\ ~(m.maxY < m.minY) THEN RatInt(m.maxY - m.minY)
        ELSE DefaultBodyH

\* the ratio taken the wrong way round
heightScaleInverted(a) == RatDiv(bvhHeight(a), bodyH(a))

heightScale(a) == RatDiv(bodyH(a), bvhHeight(a))

\* a mode flag that is also set for AIST
useDeltaRetargetAist(a) == a.format \in {"BANDAI", "AIST"}

useDeltaRetarget(a) == a.format = "BANDAI"

\* a walk that composes the parent's rotation on the wrong side
RECURSIVE BvhWorldPassSwapped(_, _, _, _)
BvhWorldPassSwapped(a, k, i, q) ==
    IF i > Len(bvhBonesSorted(a)) THEN q
    ELSE LET bvhName == bvhBonesSorted(a)[i]
             t == bvhQuatTracks(a, bvhName)
             tmpQ == IF t # 0 THEN SampleQ(TrackAt(a, t), k) ELSE QIdentity
             parentName == bvhBoneParentName(a, bvhName)
             w == IF Truthy(parentName) /\ Has(q, parentName)
                  THEN QMultiply(tmpQ, q[parentName])
                  ELSE tmpQ
         IN  BvhWorldPassSwapped(a, k, i + 1, Put(q, bvhName, w))

\* one walk over bvhBonesSorted that accumulates world rotations at keyframe k
\* into the map q (lines 854-868 with k = 0, lines 993-1007 per frame)
RECURSIVE BvhWorldPass(_, _, _, _)
BvhWorldPass(a, k, i, q) ==
    IF i > Len(bvhBonesSorted(a)) THEN q
    ELSE LET bvhName == bvhBonesSorted(a)[i]
             t == bvhQuatTracks(a, bvhName)
             tmpQ == IF t # 0 THEN SampleQ(TrackAt(a, t), k) ELSE QIdentity
             parentName == bvhBoneParentName(a, bvhName)
             w == IF Truthy(parentName) /\ Has(q, parentName)
                  THEN QMultiply(q[parentName], tmpQ)
                  ELSE tmpQ
         IN  BvhWorldPass(a, k, i + 1, Put(q, bvhName, w))

bvhRestWorldQ(a) == IF useDeltaRetarget(a) THEN BvhWorldPass(a, 0, 1, NoKeys) ELSE NoKeys

\* Object.values(mapping).find(d => d && defSkel.boneByName[d])
rootDefName(a) ==
    LET mapping == MappingFor(a.format)
        hits == {i \in 1..Len(mapping) :
                    Truthy(mapping[i][2]) /\ DefIndex(a.defSkel, mapping[i][2]) # 0}
    IN  IF hits = {} THEN Undefined
        ELSE mapping[CHOOSE i \in hits : \A j \in hits : i <= j][2]

\* an exception list that is filled for AIST only
skipDirCorrectionBonesAistOnly(format) ==
    IF format = "AIST"
    THEN {"DEF-foot.L", "DEF-foot.R", "DEF-toe.L", "DEF-toe.R",
          "DEF-spine.004", "DEF-spine.006"}
    ELSE {}

\* an exception list in which every tag without a table of its own gets the
\* MocapNET list
skipDirCorrectionBonesByTable(format) ==
    CASE format = "AIST" ->
           {"DEF-foot.L", "DEF-foot.R", "DEF-toe.L", "DEF-toe.R",
            "DEF-spine.004", "DEF-spine.006"}
      [] format \in {"CMU", "MIXAMO", "BANDAI"} -> {}
      [] OTHER ->
           {"DEF-foot.L", "DEF-foot.R", "DEF-toe.L", "DEF-toe.R", "DEF-jaw",
            "DEF-spine.004", "DEF-spine.006"}

skipDirCorrectionBones(format) ==
    CASE format = "AIST" ->
           {"DEF-foot.L", "DEF-foot.R", "DEF-toe.L", "DEF-toe.R",
            "DEF-spine.004", "DEF-spine.006"}
      [] format = "MOCAPNET" ->
           {"DEF-foot.L", "DEF-foot.R", "DEF-toe.L", "DEF-toe.R", "DEF-jaw",
            "DEF-spine.004", "DEF-spine.006"}
      [] OTHER -> {}

NEG_Z == Vec(0, 0, -1)

defRestDir(a, defName) ==
    VNormalize(VApplyQuaternion(NEG_Z, defWorldRestQ(a, defName)))

\* the direction of a child offset of the BVH bone bvhName (lines 925-934)
ChildDir(a, bvhName, position) ==
    LET Posed(rest) ==
            IF useDeltaRetarget(a) /\ Has(rest, bvhName)
            THEN VNormalize(VApplyQuaternion(position, rest[bvhName]))
            ELSE VNormalize(position)
    IN  Posed(bvhRestWorldQ(a))

\* a search in which a later child of equal alignment replaces an earlier one
RECURSIVE BestChildLastWins(_, _, _, _, _)
BestChildLastWins(a, defName, bvhName, k, s) ==
    LET nodes == bvhNodes(a)
        kids == nodes[bvhBoneByName(a, bvhName)].children
        child == nodes[kids[k]]
        Taken(dir, dot) ==
            IF /\ child.isBone /\ VLengthSq(child.position) > 0
               /\ ~IsNaNV(dir) /\ ~IsNaNV(defRestDir(a, defName))
               /\ (~s.any \/ dot >= s.bestDot)
            THEN [bvhDir |-> dir, bestDot |-> dot, any |-> TRUE]
            ELSE s
        Compared(dir) == Taken(dir, VDot(dir, defRestDir(a, defName)))
    IN  IF k > Len(kids) THEN s
        ELSE BestChildLastWins(a, defName, bvhName, k + 1,
                               Compared(ChildDir(a, bvhName, child.position)))

\* the search for the best-aligned child (lines 921-938); s is [bvhDir, bestDot,
\* any], any = FALSE standing for bestDot = -Infinity
RECURSIVE BestChild(_, _, _, _, _)
BestChild(a, defName, bvhName, k, s) ==
    LET nodes == bvhNodes(a)
        kids == nodes[bvhBoneByName(a, bvhName)].children
        child == nodes[kids[k]]
        Taken(dir, dot) ==
            IF /\ child.isBone /\ VLengthSq(child.position) > 0
               /\ ~IsNaNV(dir) /\ ~IsNaNV(defRestDir(a, defName))
               /\ (~s.any \/ dot > s.bestDot)
            THEN [bvhDir |-> dir, bestDot |-> dot, any |-> TRUE]
            ELSE s
        Compared(dir) == Taken(dir, VDot(dir, defRestDir(a, defName)))
    IN  IF k > Len(kids) THEN s
        ELSE BestChild(a, defName, bvhName, k + 1,
                       Compared(ChildDir(a, bvhName, child.position)))

\* bvhDir after the fallback to the bone's own offset (lines 939-952)
bvhDir(a, defName, bvhName) ==
    LET bone == bvhNodes(a)[bvhBoneByName(a, bvhName)]
        OwnOffset(parentName, rest) ==
            IF useDeltaRetarget(a) /\ Truthy(parentName) /\ Has(rest, parentName)
            THEN VNormalize(VApplyQuaternion(bone.position, rest[parentName]))
            ELSE VNormalize(bone.position)
        OrOwnOffset(best) ==
            IF best = VNull /\ VLengthSq(bone.position) > 0
            THEN OwnOffset(bvhBoneParentName(a, bvhName), bvhRestWorldQ(a))
            ELSE best
    IN  OrOwnOffset(BestChild(a, defName, bvhName, 1,
                              [bvhDir |-> VNull, bestDot |-> 0, any |-> FALSE]).bvhDir)

\* the rotation that takes the DEF rest direction onto the BVH direction
\* a correction that takes the BVH direction onto the DEF rest direction
dirCorrInverse(a, defName, dir) == QSetFromUnitVectors(dir, defRestDir(a, defName))

dirCorr(a, defName, dir) == QSetFromUnitVectors(defRestDir(a, defName), dir)

\* a solver that has no default for a joint without a direction: the zero
\* offset divided by its length
offsetQNoDefault(a, defName) ==
    LET Corrected(dir) ==
            IF dir = VNull \/ (~IsNaNV(dir) /\ VLengthSq(dir) = 0)
            THEN QNaN
            ELSE QMultiply(dirCorr(a, defName, dir), defWorldRestQ(a, defName))
    IN  IF defName = rootDefName(a) \/ defName \in skipDirCorrectionBones(a.format)
        THEN defWorldRestQ(a, defName)
        ELSE Corrected(bvhDir(a, defName, defToBvhName(a, defName)))

\* offsetQ[defName] for a mapped bone (lines 907-960)
offsetQ(a, defName) ==
    LET Corrected(dir) ==
            IF dir = VNull \/ (~IsNaNV(dir) /\ VLengthSq(dir) = 0)
            THEN defWorldRestQ(a, defName)
            ELSE QMultiply(dirCorr(a, defName, dir), defWorldRestQ(a, defName))
    IN  IF defName = rootDefName(a) \/ defName \in skipDirCorrectionBones(a.format)
        THEN defWorldRestQ(a, defName)
        ELSE Corrected(bvhDir(a, defName, defToBvhName(a, defName)))

\* the number of ancestors of a bone (a wrapper object counts as one)
RECURSIVE Depth(_, _)
Depth(defSkel, orig) ==
    LET p == defSkel.bones[DefIndex(defSkel, orig)].parent
    IN  IF p = NoParent THEN 0
        ELSE IF p = Wrapper THEN 1
        ELSE 1 + Depth(defSkel, p)

\* Object.keys(boneByName).sort by depth; Array.prototype.sort is stable
RECURSIVE SortByDepth(_, _)
SortByDepth(defSkel, d) ==
    IF d > Len(defSkel.bones) THEN << >>
    ELSE SelectSeq(DefNames(defSkel), LAMBDA n : Depth(defSkel, n) = d)
         \o SortByDepth(defSkel, d + 1)

\* the keys of boneByName as they come, without the sort
allDefBonesUnsorted(a) == DefNames(a.defSkel)

allDefBonesSorted(a) == SortByDepth(a.defSkel, 0)

\* a chain of calls made on the vector itself: it holds the chain's result
WrittenInPlace(v, chained) == chained

\* v.clone().applyQuaternion(..).normalize(): the chain writes the copy, and
\* the vector it was cloned from stays as it was
ClonedFrom(v, chained) == v

\* the BVH joints whose children the direction search visits (lines 907-923)
DirectionSearched(a) ==
    {defToBvhName(a, mappedDefNames(a)[k]) :
        k \in {j \in 1..Len(mappedDefNames(a)) :
                  /\ mappedDefNames(a)[j] # rootDefName(a)
                  /\ mappedDefNames(a)[j] \notin skipDirCorrectionBones(a.format)}}

\* the source skeleton's nodes after the direction search: the offset of each
\* child it turned into a direction (lines 924-934)
NodesAfterDirections(a) ==
    LET nodes == bvhNodes(a)
        Visited(i) ==
            /\ nodes[i].isBone
            /\ VLengthSq(nodes[i].position) > 0
            /\ \E b \in DirectionSearched(a) :
                  \E k \in 1..Len(nodes[bvhBoneByName(a, b)].children) :
                      nodes[bvhBoneByName(a, b)].children[k] = i
        OwnerOf(i) ==
            CHOOSE b \in DirectionSearched(a) :
                \E k \in 1..Len(nodes[bvhBoneByName(a, b)].children) :
                    nodes[bvhBoneByName(a, b)].children[k] = i
    IN  [i \in 1..Len(nodes) |->
            IF Visited(i)
            THEN [nodes[i] EXCEPT
                    !.position = ClonedFrom(@, ChildDir(a, OwnerOf(i), @))]
            ELSE nodes[i]]

---------------------------------------------------------------------------
(* The per-frame loop (lines 983-1060) *)

\* caches that are not emptied when a call starts
StaleCache(old) == old

\* const defAnimWorldQ = {}, bvhWorldAnimQ = {}: the caches of a call start
\* empty, whatever an earlier call left
NewCache(old) == NoKeys

\* a buffer one keyframe too long
ZeroBufferOffByOne(n) == [k \in 1..(n + 1) |-> QZero]

\* new Float32Array(fc * 4)
ZeroBuffer(n) == [k \in 1..n |-> QZero]

NewOutputQuats(a) ==
    [d \in {mappedDefNames(a)[k] : k \in 1..Len(mappedDefNames(a))} |->
        ZeroBuffer(fc(a))]

\* a desiredWorldQ with the offset applied on the wrong side
StandardDesiredQSwapped(bvhWAQ, offset) == QNormalize(QMultiply(offset, bvhWAQ))

\* desiredWorldQ of a mapped bone whose BVH world rotation is known
StandardDesiredQ(bvhWAQ, offset) == QNormalize(QMultiply(bvhWAQ, offset))

DeltaDesiredQ(bvhWAQ, bvhRWQ, offset) ==
    QNormalize(QMultiply(QMultiply(bvhWAQ, QInvert(bvhRWQ)), offset))

\* a version of DefLocalQ that forgets to invert the parent's rotation
DefLocalQNoInvert(parentAnimWQ, desiredWorldQ) ==
    QNormalize(QMultiply(parentAnimWQ, desiredWorldQ))

\* defLocalQ = parentAnimWQ^-1 * desiredWorldQ, renormalized
DefLocalQ(parentAnimWQ, desiredWorldQ) ==
    QNormalize(QMultiply(QInvert(parentAnimWQ), desiredWorldQ))

\* TRUE when the mapped bone takes the rest fallback (lines 1036, 1046)
UsesFallback(a, bvhW, bvhName) ==
    \/ ~Has(bvhW, bvhName)
    \/ (useDeltaRetarget(a) /\ ~Has(bvhRestWorldQ(a), bvhName))

\* a mapped branch that never renormalizes
MappedLocalQRaw(a, bvhW, defName, parentAnimWQ) ==
    LET FromSource(bvhName, offset) ==
            IF UsesFallback(a, bvhW, bvhName) THEN defRestLocalQ(a, defName)
            ELSE IF useDeltaRetarget(a)
            THEN QMultiply(QInvert(parentAnimWQ),
                           QMultiply(QMultiply(bvhW[bvhName],
                                               QInvert(bvhRestWorldQ(a)[bvhName])),
                                     offset))
            ELSE QMultiply(QInvert(parentAnimWQ), QMultiply(bvhW[bvhName], offset))
    IN  FromSource(defToBvhName(a, defName), offsetQ(a, defName))

\* tmpQ of a mapped bone (lines 1017-1048)
MappedLocalQ(a, bvhW, defName, parentAnimWQ) ==
    LET FromSource(bvhName, offset) ==
            IF UsesFallback(a, bvhW, bvhName) THEN defRestLocalQ(a, defName)
            ELSE IF useDeltaRetarget(a)
            THEN DefLocalQ(parentAnimWQ,
                           DeltaDesiredQ(bvhW[bvhName], bvhRestWorldQ(a)[bvhName],
                                         offset))
            ELSE DefLocalQ(parentAnimWQ, StandardDesiredQ(bvhW[bvhName], offset))
    IN  FromSource(defToBvhName(a, defName), offsetQ(a, defName))

\* Step 2 of frame k over allDefBonesSorted from position i on;
\* s is [anim, quats], the maps defAnimWorldQ and outputQuats
RECURSIVE DefPass(_, _, _, _, _)
DefPass(a, bvhW, k, i, s) ==
    IF i > Len(allDefBonesSorted(a)) THEN s
    ELSE LET Written(defName, parentAnimWQ, tmpQ) ==
                 [anim |-> Put(s.anim, defName, QMultiply(parentAnimWQ, tmpQ)),
                  quats |-> [s.quats EXCEPT ![defName][k + 1] = tmpQ]]
             Under(defName, parentAnimWQ) ==
                 IF IsMapped(a, defName)
                 THEN Written(defName, parentAnimWQ,
                              MappedLocalQ(a, bvhW, defName, parentAnimWQ))
                 ELSE [anim |-> Put(s.anim, defName,
                                    QMultiply(parentAnimWQ, defRestLocalQ(a, defName))),
                       quats |-> s.quats]
             ParentAnimWQ(parentOrigName) ==
                 IF Truthy(parentOrigName) /\ Has(s.anim, parentOrigName)
                 THEN s.anim[parentOrigName]
                 ELSE QIdentity
             Bone(defName) ==
                 Under(defName, ParentAnimWQ(ParentOrigName(a.defSkel, defName)))
         IN  DefPass(a, bvhW, k, i + 1, Bone(allDefBonesSorted(a)[i]))

---------------------------------------------------------------------------
(* Track assembly (lines 1062-1101) *)

NoClip == [duration |-> -1, tracks |-> << >>]
EmptyClip == [duration |-> 0, tracks |-> << >>]

\* new THREE.KeyframeTrack(name, times, values) throws on an empty times array
KeyframeTrackThrows(t) == Len(t) = 0

RotationTracks(a, quats) ==
    [k \in 1..Len(mappedDefNames(a)) |->
        LET defName == mappedDefNames(a)[k]
            bone == a.defSkel.bones[DefIndex(a.defSkel, defName)]
        IN  [name |-> <<bone.name, "quaternion">>,
             times |-> times(a),
             values |-> quats[defName]]]

rootBvhName(a) == bvhNodes(a)[bvhRoot(a)].name

rootPosTrack(a) == bvhPosTracks(a, rootBvhName(a))

\* the first child of the BVH root with a mapping (lines 1076-1081)
FirstMappedChild(a) ==
    LET nodes == bvhNodes(a)
        kids == nodes[bvhRoot(a)].children
        hits == {k \in 1..Len(kids) :
                    /\ nodes[kids[k]].isBone
                    /\ Truthy(MappingAt(MappingFor(a.format), nodes[kids[k]].name))}
    IN  IF hits = {} THEN Undefined
        ELSE MappingAt(MappingFor(a.format),
                       nodes[kids[CHOOSE k \in hits : \A j \in hits : k <= j]].name)

rootPosDef(a) ==
    LET own == MappingAt(MappingFor(a.format), rootBvhName(a))
    IN  IF ~Truthy(own) /\ rootPosTrack(a) # 0 THEN FirstMappedChild(a) ELSE own

HasRootPositionTrack(a) ==
    /\ Truthy(rootPosDef(a))
    /\ rootPosTrack(a) # 0
    /\ DefIndex(a.defSkel, rootPosDef(a)) # 0

\* defRestPos + (value - bvhRef) * heightScale on one axis
ScaledAxis(rest, value, ref, scale) ==
    RatAdd(RatInt(rest), RatMul(RatInt(value - ref), scale))

RootPositionTrack(a) ==
    LET src == TrackAt(a, rootPosTrack(a))
        defBone == a.defSkel.bones[DefIndex(a.defSkel, rootPosDef(a))]
        bvhRef == src.values[1]
        rest == defBone.position
    IN  [name |-> <<defBone.name, "position">>,
         times |-> src.times,
         values |-> [k \in 1..Len(src.values) |->
                       [x \in 1..3 |-> ScaledAxis(rest[x], src.values[k][x],
                                                  bvhRef[x], heightScale(a))]]]

newTracks(a, quats) ==
    RotationTracks(a, quats)
    \o (IF HasRootPositionTrack(a) THEN <<RootPositionTrack(a)>> ELSE << >>)

AssemblyThrows(a) ==
    \/ (Len(mappedDefNames(a)) > 0 /\ KeyframeTrackThrows(times(a)))
    \/ (HasRootPositionTrack(a) /\ KeyframeTrackThrows(TrackAt(a, rootPosTrack(a)).times))

---------------------------------------------------------------------------
(* Calls of retargetBVHToDefClip.  A run makes the call on base, then (when the
   source skeleton has a joint hanging under no parent) a call on the same
   arguments with that joint attached, then the call on base again.  pc is the
   position inside the running call. *)

\* no call of detectBVHFormat, no call of buildDefSkeleton, no viewer page open
NotCalled == "(not called)"
SceneIdle ==
    /\ mixer = "null"
    /\ currentAction = FALSE
    /\ playing = FALSE
    /\ isSkinned = FALSE
    /\ meshLoaded = FALSE
    /\ rigLoaded = FALSE
    /\ autoPlayed = FALSE
    /\ inFlight = 0
    /\ started = 0
    /\ moved = FALSE
    /\ calls = << >>
\* a body mesh of the result viewer: the body type it was loaded for, the
\* request that loaded it (0 for the page's first load), and whether it is the
\* SkinnedMesh convertToDefSkinnedMesh made of it
BodyMesh(type, by, skinned) == [type |-> type, by |-> by, skinned |-> skinned]
\* bodyMesh = null
NoBodyMesh == BodyMesh("null", 0, FALSE)
ResultIdle ==
    /\ currentBodyType = NotCalled
    /\ bodyMesh = NoBodyMesh
    /\ bodyGeometry = Null
    /\ skinWeightData = Null
    /\ rcIsSkinned = FALSE
    /\ rcMixer = FALSE
    /\ cachedBvhResult = FALSE
    /\ scene = {}
    /\ reloads = {}
    /\ switches = 0
    /\ loadFailed = FALSE
ViewersIdle == SceneIdle /\ ResultIdle
DetectIdle == bones = << >> /\ tag = NotCalled
BuildIdle ==
    /\ skelData = [bones |-> << >>]
    /\ swData = [bone_names |-> << >>]
    /\ bpc = NotCalled
    /\ bi = 0
    /\ boneByName = << >>
    /\ rootBone = 0
    /\ thrown = ""

Orphans(skel) ==
    {i \in 2..Len(skel.nodes) :
        \A j \in 1..Len(skel.nodes) :
            \A k \in 1..Len(skel.nodes[j].children) : skel.nodes[j].children[k] # i}

Reattach(skel) ==
    [skel EXCEPT !.nodes =
        [i \in 1..Len(skel.nodes) |->
            IF i + 1 \in Orphans(skel)
            THEN [skel.nodes[i] EXCEPT !.children = Append(@, i + 1)]
            ELSE skel.nodes[i]]]

Other(a) == [a EXCEPT !.bvhResult.skeleton = Reattach(a.bvhResult.skeleton)]

Init ==
    /\ base \in Inputs
    /\ args = base
    /\ phase = "first"
    /\ pc = "idle"
    /\ f = 0
    /\ bvhWorldAnimQ = NoKeys
    /\ defAnimWorldQ = NoKeys
    /\ outputQuats = NoKeys
    /\ out = NoClip
    /\ raised = FALSE
    /\ results = << >>
    /\ DetectIdle
    /\ BuildIdle
    /\ ViewersIdle

\* lines 735-986: everything before the frame loop, the early return included
Begin ==
    /\ pc = "idle"
    /\ f' = 0
    /\ raised' = FALSE
    /\ IF firstTrack(args) = 0
       THEN /\ out' = EmptyClip
            /\ pc' = "return"
            /\ UNCHANGED <<args, bvhWorldAnimQ, defAnimWorldQ, outputQuats>>
       ELSE /\ out' = NoClip
            /\ args' = [args EXCEPT
                           !.bvhResult.skeleton.nodes = NodesAfterDirections(args)]
            /\ outputQuats' = NewOutputQuats(args)
            /\ bvhWorldAnimQ' = NewCache(bvhWorldAnimQ)
            /\ defAnimWorldQ' = NewCache(defAnimWorldQ)
            /\ pc' = IF fc(args) = 0 THEN "assemble" ELSE "passA"
    /\ UNCHANGED <<base, phase, results>>
    /\ UNCHANGED <<detectVars, buildVars, viewerVars>>

\* lines 993-1007: step 1 of frame f
PassA ==
    /\ pc = "passA"
    /\ bvhWorldAnimQ' = BvhWorldPass(args, f, 1, bvhWorldAnimQ)
    /\ pc' = "passB"
    /\ UNCHANGED <<base, args, phase, f, defAnimWorldQ, outputQuats, out, raised,
                   results>>
    /\ UNCHANGED <<detectVars, buildVars, viewerVars>>

\* lines 1010-1059: step 2 of frame f, then f++
PassB ==
    /\ pc = "passB"
    /\ \E s \in {DefPass(args, bvhWorldAnimQ, f, 1,
                          [anim |-> defAnimWorldQ, quats |-> outputQuats])} :
          /\ defAnimWorldQ' = s.anim
          /\ outputQuats' = s.quats
    /\ f' = f + 1
    /\ pc' = IF f + 1 < fc(args) THEN "passA" ELSE "assemble"
    /\ UNCHANGED <<base, args, phase, bvhWorldAnimQ, out, raised, results>>
    /\ UNCHANGED <<detectVars, buildVars, viewerVars>>

\* lines 1062-1101: the tracks and the returned clip, or the exception of a
\* KeyframeTrack constructor
Assemble ==
    /\ pc = "assemble"
    /\ IF AssemblyThrows(args)
       THEN /\ raised' = TRUE
            /\ out' = NoClip
       ELSE /\ raised' = FALSE
            /\ out' = [duration |-> args.bvhResult.clip.duration,
                       tracks |-> newTracks(args, outputQuats)]
    /\ pc' = "return"
    /\ UNCHANGED <<base, args, phase, f, bvhWorldAnimQ, defAnimWorldQ, outputQuats,
                   results>>
    /\ UNCHANGED <<detectVars, buildVars, viewerVars>>

NextPhase == 
    CASE phase = "first" -> IF Other(base) # base THEN "other" ELSE "again"
      [] phase = "other" -> "again"
      [] OTHER -> "end"

\* the call is over: the caller has its result and makes its next call
Return ==
    /\ pc = "return"
    /\ results' = Append(results, [args |-> args, out |-> out, raised |-> raised])
    /\ phase' = NextPhase
    /\ args' = IF NextPhase = "other" THEN Other(base) ELSE base
    /\ pc' = IF NextPhase = "end" THEN "done" ELSE "idle"
    /\ UNCHANGED <<base, f, bvhWorldAnimQ, defAnimWorldQ, outputQuats, out, raised>>
    /\ UNCHANGED <<detectVars, buildVars, viewerVars>>

Next == Begin \/ PassA \/ PassB \/ Assemble \/ Return

Spec == Init /\ [][Next]_vars

---------------------------------------------------------------------------
(* What a returned clip does to the target: the pose it plays back *)

\* the call has returned a clip
Returned == pc = "return" /\ ~raised

SameRotation(p, q) == p = q \/ p = QNeg(q)

QuatTrackOf(clip, a, defName) ==
    LET nm == <<a.defSkel.bones[DefIndex(a.defSkel, defName)].name, "quaternion">>
        hits == {i \in 1..Len(clip.tracks) : clip.tracks[i].name = nm}
    IN  IF hits = {} THEN 0 ELSE CHOOSE i \in hits : TRUE

\* the local rotation of a target joint at frame k of the clip: its track's
\* keyframe, or the rotation the bone was built with if it has no track
OutLocal(clip, a, defName, k) ==
    IF QuatTrackOf(clip, a, defName) # 0
    THEN clip.tracks[QuatTrackOf(clip, a, defName)].values[k + 1]
    ELSE a.defSkel.bones[DefIndex(a.defSkel, defName)].quaternion

\* the rotation accumulated down the bone chain at frame k
RECURSIVE AccWorld(_, _, _, _)
AccWorld(clip, a, defName, k) ==
    IF Truthy(ParentOrigName(a.defSkel, defName))
    THEN QMultiply(AccWorld(clip, a, ParentOrigName(a.defSkel, defName), k),
                   OutLocal(clip, a, defName, k))
    ELSE OutLocal(clip, a, defName, k)

QuatSamples(a) ==
    {a.bvhResult.clip.tracks[i].values[k] :
        i \in {j \in 1..Len(a.bvhResult.clip.tracks) :
                 TrackProp(a.bvhResult.clip.tracks[j]) = "quaternion"},
        k \in 1..fc(a)}

AllIdentity(a) == QuatSamples(a) \subseteq {QIdentity}

AllFramesEqualFirst(a) ==
    \A i \in 1..Len(a.bvhResult.clip.tracks) :
        LET t == a.bvhResult.clip.tracks[i]
        IN  TrackProp(t) = "quaternion" =>
                \A k \in 1..Len(t.values) : t.values[k] = t.values[1]

RestClip(a) ==
    IF useDeltaRetarget(a) THEN AllFramesEqualFirst(a) ELSE AllIdentity(a)

\* the hierarchy walk from bones[0] reaches the source joint
Reached(a, bvhName) ==
    \E i \in 1..Len(bvhBonesSorted(a)) : bvhBonesSorted(a)[i] = bvhName

Driven(a) ==
    {mappedDefNames(a)[i] : i \in 1..Len(mappedDefNames(a))}

ReachedDriven(a) == {d \in Driven(a) : Reached(a, defToBvhName(a, d))}

\* the scenario: root-spine-head target, head at 90 degrees about X, 2 frames
\* of identity
HeadName == "DEF-spine.006"

HeadScenario(a) ==
    /\ a.defSkel = DefSkeleton("rsh")
    /\ firstTrack(a) # 0
    /\ fc(a) = MaxFrames
    /\ AllIdentity(a)
    /\ HeadName \in Driven(a)

---------------------------------------------------------------------------
(* C1 *)

\* as rotations: q and -q are the same rotation
WorldIsOffset(a, clip, d, k) == SameRotation(AccWorld(clip, a, d, k), offsetQ(a, d))

---------------------------------------------------------------------------
(* C2 *)

\* the target joints left alone: named in opts.skipDefBones, or the target of
\* no table entry whose source joint the source skeleton has
SkipJoints(a) ==
    {d \in {DefNames(a.defSkel)[i] : i \in 1..Len(a.defSkel.bones)} :
        \/ d \in a.opts.skipDefBones
        \/ \A i \in 1..Len(MappingFor(a.format)) :
              MappingFor(a.format)[i][2] = d
                  => bvhBoneByName(a, MappingFor(a.format)[i][1]) = 0}

ChildrenOf(a, d) ==
    {c \in {DefNames(a.defSkel)[i] : i \in 1..Len(a.defSkel.bones)} :
        ParentOrigName(a.defSkel, c) = d}

\* the accumulated world rotation the loop holds for the parent of d
ParentAcc(a, d) ==
    IF Truthy(ParentOrigName(a.defSkel, d))
    THEN defAnimWorldQ[ParentOrigName(a.defSkel, d)]
    ELSE QIdentity

\* frame f - 1 has just been computed
FrameDone == pc \in {"passA", "assemble"} /\ f > 0

---------------------------------------------------------------------------
(* C3 *)

RotationTrackIndexes(clip) ==
    {i \in 1..Len(clip.tracks) : clip.tracks[i].name[2] = "quaternion"}

\* C3: unit norm.  Every quaternion written to an output buffer, and so every
\* keyframe of every rotation track of a returned clip, has norm 1, whether it
\* came from the mapped branch or from the rest fallback, and whatever the
\* length of the source samples.
C3_UnitNorm ==
    /\ FrameDone =>
          \A d \in DOMAIN outputQuats : \A k \in 1..f : QIsUnit(outputQuats[d][k])
    /\ Returned =>
          \A i \in RotationTrackIndexes(out) :
             \A k \in 1..Len(out.tracks[i].values) : QIsUnit(out.tracks[i].values[k])

\* a clip came back whose source samples are not unit length, with one joint
\* driven from the source and another on the rest fallback
C3_Witness ==
    /\ Returned
    /\ firstTrack(args) # 0
    /\ \E q \in QuatSamples(args) : ~QIsUnit(q)
    /\ ReachedDriven(args) # {}
    /\ \E d \in Driven(args) \ ReachedDriven(args) :
          /\ QuatTrackOf(out, args, d) # 0
          /\ Len(out.tracks[QuatTrackOf(out, args, d)].values) = MaxFrames

---------------------------------------------------------------------------
(* C4 *)

\* C4: determinism.  Any two calls made with the same arguments ended the same
\* way: both raised, or both returned clips with the same duration, the same
\* tracks and the same value at every keyframe, whatever call ran in between.
C4_Determinism ==
    \A i \in 1..Len(results) : \A j \in 1..Len(results) :
        results[i].args = results[j].args =>
            /\ results[i].raised = results[j].raised
            /\ results[i].out = results[j].out

\* three calls are over: the first and the third with the same arguments and a
\* clip with tracks, the second with other arguments and another clip
C4_Witness ==
    /\ pc = "done"
    /\ Len(results) = 3
    /\ results[1].args = results[3].args
    /\ results[2].args # results[1].args
    /\ ~results[1].raised
    /\ Len(results[1].out.tracks) > 1
    /\ results[2].out # results[1].out

---------------------------------------------------------------------------
(* C5 *)

\* the clip has a rotation track and every track has the same F >= 1 timestamps
UniformClip(a) ==
    /\ firstTrack(a) # 0
    /\ fc(a) >= 1
    /\ \A i \in 1..Len(a.bvhResult.clip.tracks) :
          /\ a.bvhResult.clip.tracks[i].times = times(a)
          /\ Len(a.bvhResult.clip.tracks[i].values) = fc(a)

\* C5: timing preservation.  A call on a clip with rotation tracks whose tracks
\* all have the same F >= 1 frames returns a clip (it does not raise) whose
\* duration is the source clip's and whose tracks, rotation and root position
\* alike, have F keyframes at the source timestamps.
C5_TimingPreserved ==
    (pc = "return" /\ UniformClip(args)) =>
        /\ ~raised
        /\ out.duration = args.bvhResult.clip.duration
        /\ \A i \in 1..Len(out.tracks) :
              /\ out.tracks[i].times = times(args)
              /\ Len(out.tracks[i].values) = fc(args)

\* a clip of MaxFrames frames came back with rotation tracks and the root
\* position track
C5_Witness ==
    /\ Returned
    /\ UniformClip(args)
    /\ fc(args) = MaxFrames
    /\ out.duration = MaxFrames - 1
    /\ RotationTrackIndexes(out) # {}
    /\ \E i \in 1..Len(out.tracks) : out.tracks[i].name[2] = "position"

---------------------------------------------------------------------------
(* C6 *)

PositionTrackIndexes(clip) ==
    {i \in 1..Len(clip.tracks) : clip.tracks[i].name[2] = "position"}

PositionTrack(clip) == clip.tracks[CHOOSE i \in PositionTrackIndexes(clip) : TRUE]

\* the target joint that carries a position track, by its bone name
CarrierOf(a, track) ==
    CHOOSE i \in 1..Len(a.defSkel.bones) : a.defSkel.bones[i].name = track.name[1]

\* the source root's position track
SourceRootPositions(a) ==
    a.bvhResult.clip.tracks[
        CHOOSE i \in 1..Len(a.bvhResult.clip.tracks) :
            a.bvhResult.clip.tracks[i].name = <<rootBvhName(a), "position">>].values

\* the same call with a body mesh twice as high
DoubledBody(a) ==
    [a EXCEPT !.opts.bodyMesh.maxY = a.opts.bodyMesh.maxY
                                      + (a.opts.bodyMesh.maxY - a.opts.bodyMesh.minY)]

HasBodyHeight(a) ==
    a.opts.bodyMesh.present /\ a.opts.bodyMesh.maxY >= a.opts.bodyMesh.minY

\* C6: root translation law.  The root position track of a returned clip holds,
\* at every frame f and on every axis, rest + (p_f - p_0) * s, with rest the
\* rest position of the joint that carries the track, p the source root's
\* positions and s = body height / max(source skeleton height, 1/100); so
\* frame 0 holds rest, and with a body mesh twice as high the offsets from
\* frame 0 are twice as large.
C6_RootTranslationLaw ==
    (Returned /\ PositionTrackIndexes(out) # {}) =>
        LET track == PositionTrack(out)
            rest == args.defSkel.bones[CarrierOf(args, track)].position
            p == SourceRootPositions(args)
            s == RatDiv(bodyH(args),
                        RatMax(RatInt(skelBox(args).maxY - skelBox(args).minY),
                               Rat(1, 100)))
        IN  /\ Len(track.values) = Len(p)
            /\ \A k \in 1..Len(p) : \A x \in 1..3 :
                  track.values[k][x]
                      = RatAdd(RatInt(rest[x]), RatMul(RatInt(p[k][x] - p[1][x]), s))
            /\ \A x \in 1..3 : track.values[1][x] = RatInt(rest[x])
            /\ HasBodyHeight(args) =>
                  \A k \in 1..Len(p) : \A x \in 1..3 :
                     RatSub(RootPositionTrack(DoubledBody(args)).values[k][x],
                            RootPositionTrack(DoubledBody(args)).values[1][x])
                       = RatMul(RatInt(2),
                                RatSub(track.values[k][x], track.values[1][x]))

\* a clip came back whose root moves off its rest position, scaled by a body
\* mesh of known height
C6_Witness ==
    /\ Returned
    /\ PositionTrackIndexes(out) # {}
    /\ HasBodyHeight(args)
    /\ heightScale(args) # RatInt(1)
    /\ Len(PositionTrack(out).values) = MaxFrames
    /\ PositionTrack(out).values[2] # PositionTrack(out).values[1]

---------------------------------------------------------------------------
(* C7 *)

\* the table's values for the bone children of the source root, in child order
RootChildTargets(a) ==
    LET nodes == bvhNodes(a)
        kids == nodes[bvhRoot(a)].children
    IN  [k \in 1..Len(kids) |->
            IF nodes[kids[k]].isBone
            THEN MappingAt(MappingFor(a.format), nodes[kids[k]].name)
            ELSE Undefined]

FirstOf(seq, S) ==
    IF \E k \in 1..Len(seq) : seq[k] \in S
    THEN {seq[CHOOSE k \in 1..Len(seq) :
                  seq[k] \in S /\ \A j \in 1..(k - 1) : seq[j] \notin S]}
    ELSE {}

TableTargets(a) ==
    {MappingFor(a.format)[i][2] : i \in 1..Len(MappingFor(a.format))} \ {Null}

TargetJoints(a) == {DefNames(a.defSkel)[i] : i \in 1..Len(a.defSkel.bones)}

\* the joints the rule can mean for an unmapped root: the target of the first
\* child the table maps, or of the first child the table maps to a joint of
\* the target skeleton
FallbackCarriers(a) ==
    FirstOf(RootChildTargets(a), TableTargets(a))
    \cup FirstOf(RootChildTargets(a), TableTargets(a) \cap TargetJoints(a))

RootUnmapped(a) == ~Truthy(MappingAt(MappingFor(a.format), rootBvhName(a)))

SourceRootHasPositions(a) ==
    \E i \in 1..Len(a.bvhResult.clip.tracks) :
        a.bvhResult.clip.tracks[i].name = <<rootBvhName(a), "position">>

\* C7 (as stated): root translation fallback.  When a call on a clip with
\* frames returns and the source root has a position track, then: if the root
\* is unmapped and one of its children maps to a joint of the target skeleton,
\* the clip has a position track, carried by the target of the first child
\* that maps; if the root is mapped to a joint of the target skeleton, the
\* clip has a position track carried by that joint.
C7_AsStated ==
    (Returned /\ UniformClip(args) /\ SourceRootHasPositions(args)) =>
        /\ (RootUnmapped(args)
              /\ FirstOf(RootChildTargets(args),
                         TableTargets(args) \cap TargetJoints(args)) # {})
             => /\ PositionTrackIndexes(out) # {}
                /\ DefNames(args.defSkel)[CarrierOf(args, PositionTrack(out))]
                     \in FallbackCarriers(args)
        /\ (~RootUnmapped(args)
              /\ MappingAt(MappingFor(args.format), rootBvhName(args))
                   \in TargetJoints(args))
             => /\ PositionTrackIndexes(out) # {}
                /\ DefNames(args.defSkel)[CarrierOf(args, PositionTrack(out))]
                     = MappingAt(MappingFor(args.format), rootBvhName(args))

---------------------------------------------------------------------------
(* C8 *)

HasRotationTrack(a, bvhName) ==
    \E i \in 1..Len(a.bvhResult.clip.tracks) :
        a.bvhResult.clip.tracks[i].name = <<bvhName, "quaternion">>

InSourceSkeleton(a, bvhName) ==
    \E i \in 1..Len(bvhBones(a)) : bvhNodes(a)[bvhBones(a)[i]].name = bvhName

\* the source joints the table gives for a target joint
SourcesFor(a, d) ==
    {MappingFor(a.format)[i][1] :
        i \in {j \in 1..Len(MappingFor(a.format)) : MappingFor(a.format)[j][2] = d}}

\* the target joints that can get a track: in the target skeleton, not skipped
Candidates(a) == TargetJoints(a) \ a.opts.skipDefBones

---------------------------------------------------------------------------
(* C9 *)

NoRotationTrack(a) ==
    \A i \in 1..Len(a.bvhResult.clip.tracks) :
        a.bvhResult.clip.tracks[i].name[2] # "quaternion"

---------------------------------------------------------------------------
(* C10 *)

ZeroFrameClip(a) == firstTrack(a) # 0 /\ fc(a) = 0

\* C10 (as stated): zero-frame clip.  A call on a clip that has rotation tracks
\* with no timestamps returns, without raising, a clip of duration 0 with no
\* tracks.
C10_AsStated ==
    (pc = "return" /\ ZeroFrameClip(args)) =>
        /\ ~raised
        /\ out.duration = 0
        /\ out.tracks = << >>

---------------------------------------------------------------------------
(* detectBVHFormat (lines 425-437), called on the bones of a loaded source
   skeleton before the retarget call.  A bone is [name]. *)

\* no retarget call is made in the runs of the load-time functions
CallIdle ==
    /\ base = << >>
    /\ args = << >>
    /\ phase = "end"
    /\ pc = "done"
    /\ f = 0
    /\ bvhWorldAnimQ = NoKeys
    /\ defAnimWorldQ = NoKeys
    /\ outputQuats = NoKeys
    /\ out = NoClip
    /\ raised = FALSE
    /\ results = << >>

\* new Set(bones.map(b => b.name))
BoneNames(bs) == {bs[i].name : i \in 1..Len(bs)}

\* a classifier whose last line returns the tag of the default mapping table
detectBVHFormatDefaultTable(bs) ==
    LET names == BoneNames(bs)
    IN  IF "Pelvis" \in names /\ "Left_hip" \in names THEN "AIST"
        ELSE IF "Chest" \in names /\ "UpperArm_L" \in names THEN "BANDAI"
        ELSE IF "Hips" \in names /\ "LeftArm" \in names
        THEN IF "Spine2" \in names THEN "MIXAMO" ELSE "CMU"
        ELSE "MOCAPNET"

\* a classifier that looks for the MocapNET names before the others
detectBVHFormatMocapnetFirst(bs) ==
    LET names == BoneNames(bs)
    IN  IF "hip" \in names \/ "rshoulder" \in names THEN "MOCAPNET"
        ELSE IF "Pelvis" \in names /\ "Left_hip" \in names THEN "AIST"
        ELSE IF "Chest" \in names /\ "UpperArm_L" \in names THEN "BANDAI"
        ELSE IF "Hips" \in names /\ "LeftArm" \in names
        THEN IF "Spine2" \in names THEN "MIXAMO" ELSE "CMU"
        ELSE "UNKNOWN"

detectBVHFormat(bs) ==
    LET names == BoneNames(bs)
    IN  IF "Pelvis" \in names /\ "Left_hip" \in names THEN "AIST"
        ELSE IF "Chest" \in names /\ "UpperArm_L" \in names THEN "BANDAI"
        ELSE IF "Hips" \in names /\ "LeftArm" \in names
        THEN IF "Spine2" \in names THEN "MIXAMO" ELSE "CMU"
        ELSE IF "hip" \in names \/ "rshoulder" \in names THEN "MOCAPNET"
        ELSE "UNKNOWN"

\* the joint names the classifier looks for, and one it does not
JointNames ==
    {"Pelvis", "Left_hip", "Chest", "UpperArm_L", "Hips", "LeftArm", "Spine2",
     "hip", "rshoulder", "Head"}

\* the longest bone list given to the classifier
MaxBones == 4

BoneLists ==
    UNION {[1..n -> {[name |-> x] : x \in JointNames}] : n \in 0..MaxBones}

DetectInit ==
    /\ bones \in BoneLists
    /\ tag = NotCalled
    /\ CallIdle
    /\ BuildIdle
    /\ ViewersIdle

\* const format = detectBVHFormat(bones)
Detect ==
    /\ tag = NotCalled
    /\ tag' = detectBVHFormat(bones)
    /\ UNCHANGED <<bones, callVars, buildVars, viewerVars>>

DetectNext == Detect

DetectSpec == DetectInit /\ [][DetectNext]_vars

Tags == {"AIST", "BANDAI", "MIXAMO", "CMU", "MOCAPNET", "UNKNOWN"}

\* one of the diagnostic checks matches the set of names
CheckMatches(names) ==
    \/ "Pelvis" \in names /\ "Left_hip" \in names
    \/ "Chest" \in names /\ "UpperArm_L" \in names
    \/ "Hips" \in names /\ "LeftArm" \in names
    \/ "hip" \in names
    \/ "rshoulder" \in names

\* C11 (classifier totality): every call of detectBVHFormat, on any list of
\* named bones, the empty list included, returns one of the six tags, returns
\* UNKNOWN when none of the diagnostic checks matches the names, and leaves
\* its argument and everything else as it was.
C11_ClassifierTotal ==
    [][Detect => /\ tag' \in Tags
                 /\ (~CheckMatches(BoneNames(bones)) => tag' = "UNKNOWN")
                 /\ bones' = bones
                 /\ UNCHANGED <<callVars, buildVars, viewerVars>>]_vars

\* the classifier has returned the default tag for bones that hold one half of
\* each two-name check
C11_Witness ==
    /\ tag = "UNKNOWN"
    /\ {"Pelvis", "Chest", "Hips"} \subseteq BoneNames(bones)

---------------------------------------------------------------------------
(* C12 *)

KnownTables == {"CMU", "MIXAMO", "BANDAI", "AIST"}

\* the target joints the MocapNET table drives from a joint of the source
\* skeleton
DefaultTableDriven(a) ==
    {BVH_TO_DEF_MOCAPNET[i][2] :
        i \in {j \in 1..Len(BVH_TO_DEF_MOCAPNET) :
                 /\ Truthy(BVH_TO_DEF_MOCAPNET[j][2])
                 /\ InSourceSkeleton(a, BVH_TO_DEF_MOCAPNET[j][1])
                 /\ BVH_TO_DEF_MOCAPNET[j][2] \in TargetJoints(a)
                 /\ BVH_TO_DEF_MOCAPNET[j][2] \notin a.opts.skipDefBones}}

\* the target joints that carry a rotation track of the clip
RotationCarriers(a, clip) ==
    {a.defSkel.bones[CarrierOf(a, clip.tracks[i])].orig :
        i \in RotationTrackIndexes(clip)}

\* a call with a tag outside the four named tables that returned a clip built
\* it from the MocapNET table
DefaultTableUsed ==
    (Returned /\ args.format \notin KnownTables /\ firstTrack(args) # 0) =>
        RotationCarriers(args, out) = DefaultTableDriven(args)

\* C12 (as stated): unknown-format fallback.  A call whose format tag is none
\* of CMU, MIXAMO, BANDAI, AIST ends without raising, and the rotation tracks
\* of its clip are those of the joints the MocapNET table drives.
C12_AsStated ==
    (pc = "return" /\ args.format \notin KnownTables) =>
        /\ ~raised
        /\ firstTrack(args) # 0 =>
              RotationCarriers(args, out) = DefaultTableDriven(args)

---------------------------------------------------------------------------
(* buildDefSkeleton (lines 1896-1942).  A joint name is the sequence of its
   dot-free segments.  skelData.bones is a sequence of [name, parent,
   local_position, local_quaternion], parent a name or NoName; swData.bone_names
   is a sequence of names.  boneByName lists the created bones in insertion
   order as the records of defSkel.bones: orig is the key, parent the key of
   the parent object or NoParent.  rootBone is an index into it, 0 for null. *)

\* name.replace(/\./g, '_')
RECURSIVE SanitizedName(_)
SanitizedName(segs) ==
    IF Len(segs) = 1 THEN segs[1]
    ELSE SanitizedName(SubSeq(segs, 1, Len(segs) - 1)) \o "_" \o segs[Len(segs)]

\* skelByName[name]: the index in skelData.bones of the last entry of that
\* name, 0 for undefined
skelByName(sd, name) ==
    LET hits == {i \in 1..Len(sd.bones) : sd.bones[i].name = name}
    IN  IF hits = {} THEN 0 ELSE CHOOSE i \in hits : \A j \in hits : j <= i

\* the index of boneByName[key], 0 for undefined
BuiltIndex(built, key) ==
    IF \E i \in 1..Len(built) : built[i].orig = key
    THEN CHOOSE i \in 1..Len(built) : built[i].orig = key
    ELSE 0

\* bone.position.set(p[0], p[2], -p[1])
BlenderPosition(p) == Vec(p[1], p[3], -p[2])

\* bone.quaternion.set(q[1], q[3], -q[2], q[0])
BlenderQuaternion(q) == QSet(q[2], q[4], -q[3], q[1])

\* Object3D.add: an object is not added to itself; otherwise it leaves its
\* parent and gets the new one
Add(built, parentIdx, childIdx) ==
    IF parentIdx = childIdx THEN built
    ELSE [built EXCEPT ![childIdx].parent = built[parentIdx].orig]

\* the chain of parents of a bone ends after at most Len(built) steps
RECURSIVE ChainEnds(_, _, _)
ChainEnds(built, i, steps) ==
    IF built[i].parent = NoParent THEN TRUE
    ELSE IF steps = 0 THEN FALSE
    ELSE ChainEnds(built, BuiltIndex(built, built[i].parent), steps - 1)

\* a parent that is null in the skeleton file
NoName == << >>

\* the joints of the model's skeleton files and a name that is no joint
Spine == <<"DEF-spine">>
Spine001 == <<"DEF-spine", "001">>
Spine006 == <<"DEF-spine", "006">>
ThighL == <<"DEF-thigh", "L">>
Ghost == <<"DEF-pelvis", "L">>
AllJoints == <<Spine, Spine001, Spine006, ThighL>>

\* the longest bone list of a skin weight file
MaxJoints == 3

\* the entry of joint i in the skeleton file
JointData(i, parent) ==
    [name |-> AllJoints[i],
     parent |-> parent,
     local_position |-> <<i, 2, 3>>,
     local_quaternion |-> IF i = 3 THEN <<0, 0, 1, 0>> ELSE <<1, 0, 0, 0>>]

\* the parents a skeleton file can declare for a joint of a list of n joints
DeclaredParents(n) == {NoName, Ghost} \cup {AllJoints[j] : j \in 1..n}

\* the skeleton files for the first n joints: each joint has an entry or none
RECURSIVE SkeletonFiles(_, _)
SkeletonFiles(n, i) ==
    IF i > n THEN {<< >>}
    ELSE LET rest == SkeletonFiles(n, i + 1)
         IN  rest \cup {<<JointData(i, p)>> \o r : p \in DeclaredParents(n), r \in rest}

BuildInit ==
    /\ \E n \in 0..MaxJoints :
          /\ swData = [bone_names |-> SubSeq(AllJoints, 1, n)]
          /\ skelData \in {[bones |-> b] : b \in SkeletonFiles(n, 1)}
    /\ bpc = "create"
    /\ bi = 0
    /\ boneByName = << >>
    /\ rootBone = 0
    /\ thrown = ""
    /\ CallIdle
    /\ DetectIdle
    /\ ViewersIdle

\* lines 1900-1909: a bone per name of the skin weight file
Create ==
    /\ bpc = "create"
    /\ boneByName' =
          [i \in 1..Len(swData.bone_names) |->
              [orig |-> JoinDots(swData.bone_names[i]),
               name |-> SanitizedName(swData.bone_names[i]),
               parent |-> NoParent,
               quaternion |-> QIdentity,
               position |-> Vec(0, 0, 0)]]
    /\ bpc' = "link"
    /\ bi' = 1
    /\ UNCHANGED <<skelData, swData, rootBone, thrown, callVars, detectVars, viewerVars>>

\* lines 1911-1927: one iteration of the loop that sets the local transform
\* and the parent of bones[bi], or the end of the loop
Link ==
    /\ bpc = "link"
    /\ IF bi > Len(swData.bone_names)
       THEN /\ bpc' = "collect"
            /\ bi' = 1
            /\ UNCHANGED <<boneByName, rootBone>>
       ELSE LET d == skelByName(skelData, swData.bone_names[bi])
                data == skelData.bones[d]
                parentIdx == IF data.parent # NoName
                             THEN BuiltIndex(boneByName, JoinDots(data.parent))
                             ELSE 0
                placed == [boneByName EXCEPT
                              ![bi].position = BlenderPosition(data.local_position),
                              ![bi].quaternion = BlenderQuaternion(data.local_quaternion)]
            IN  /\ bpc' = "link"
                /\ bi' = bi + 1
                /\ IF d = 0
                   THEN UNCHANGED <<boneByName, rootBone>>
                   ELSE IF parentIdx # 0
                   THEN /\ boneByName' = Add(placed, parentIdx, bi)
                        /\ UNCHANGED rootBone
                   ELSE /\ boneByName' = placed
                        /\ rootBone' = IF rootBone = 0 THEN bi ELSE rootBone
    /\ UNCHANGED <<skelData, swData, thrown, callVars, detectVars, viewerVars>>

\* lines 1929-1936: one iteration of the loop that attaches the other bones
\* without a declared parent to rootBone, or the end of the loop
Collect ==
    /\ bpc = "collect"
    /\ IF bi > Len(boneByName)
       THEN /\ bpc' = "finish"
            /\ UNCHANGED <<bi, boneByName>>
       ELSE LET d == skelByName(skelData, swData.bone_names[bi])
            IN  /\ bpc' = "collect"
                /\ bi' = bi + 1
                /\ boneByName' =
                      IF d # 0 /\ skelData.bones[d].parent = NoName
                         /\ bi # rootBone /\ rootBone # 0
                      THEN Add(boneByName, rootBone, bi)
                      ELSE boneByName
    /\ UNCHANGED <<skelData, swData, rootBone, thrown, callVars, detectVars, viewerVars>>

\* lines 1938-1941: the root of last resort, updateWorldMatrix(true, true) and
\* the return.  Without a bone rootBone is null and the call on it is a
\* TypeError; updateWorldMatrix walks up the parents first, without end when
\* they form a cycle (RangeError: maximum call stack size exceeded).
Finish ==
    /\ bpc = "finish"
    /\ \E r \in {IF rootBone = 0 /\ Len(boneByName) > 0 THEN 1 ELSE rootBone} :
          /\ rootBone' = r
          /\ thrown' = IF r = 0 THEN "TypeError"
                       ELSE IF ~ChainEnds(boneByName, r, Len(boneByName))
                       THEN "RangeError"
                       ELSE ""
    /\ bpc' = "done"
    /\ UNCHANGED <<skelData, swData, bi, boneByName, callVars, detectVars, viewerVars>>

BuildNext == Create \/ Link \/ Collect \/ Finish

BuildSpec == BuildInit /\ [][BuildNext]_vars

---------------------------------------------------------------------------
(* C13, C14 *)

\* buildDefSkeleton has ended, by returning or by throwing
Built == bpc = "done"

ListedJoints == {swData.bone_names[i] : i \in 1..Len(swData.bone_names)}

\* the parent the skeleton file declares for a listed joint, NoName if it has
\* no entry
DeclaredParent(name) ==
    IF skelByName(skelData, name) = 0 THEN NoName
    ELSE skelData.bones[skelByName(skelData, name)].parent

\* a listed joint declares a parent that is not in the joint list
MissingParent ==
    \E j \in ListedJoints :
        DeclaredParent(j) # NoName /\ DeclaredParent(j) \notin ListedJoints

\* the joint k declared parents above a joint, NoName past a joint without one
RECURSIVE DeclaredAncestor(_, _)
DeclaredAncestor(name, k) ==
    IF k = 0 \/ name = NoName THEN name
    ELSE DeclaredAncestor(DeclaredParent(name), k - 1)

\* a listed joint is its own declared ancestor
ParentCycle ==
    \E j \in ListedJoints :
        \E k \in 1..Len(swData.bone_names) : DeclaredAncestor(j, k) = j

\* the built bones that have no parent object
Parentless == {i \in 1..Len(boneByName) : boneByName[i].parent = NoParent}

\* bone i hangs under bone r through parent links
RECURSIVE Under(_, _, _)
Under(i, r, steps) ==
    \/ i = r
    \/ /\ steps > 0
       /\ boneByName[i].parent # NoParent
       /\ Under(BuiltIndex(boneByName, boneByName[i].parent), r, steps - 1)

SingleTree ==
    /\ Parentless = {rootBone}
    /\ \A i \in 1..Len(boneByName) : Under(i, rootBone, Len(boneByName))

\* every listed joint has an entry in the skeleton file
AllHaveEntries == \A j \in ListedJoints : skelByName(skelData, j) # 0

\* there are joints, each has an entry, and the declared parents are listed
\* joints that form no cycle
WellFormedFiles ==
    /\ swData.bone_names # << >>
    /\ AllHaveEntries
    /\ ~MissingParent
    /\ ~ParentCycle

\* on well-formed files the construction returns one tree
SingleTreeWhenWellFormed == (Built /\ WellFormedFiles) => (thrown = "" /\ SingleTree)

\* C13 (as stated): malformed skeleton rejection.  When the joint data holds a
\* parent cycle, or a joint whose declared parent is not in the joint list,
\* the construction ends with a StructureError.
C13_AsStated ==
    (Built /\ AllHaveEntries /\ (ParentCycle \/ MissingParent)) =>
        thrown = "StructureError"

\* C14 (as stated): single-tree invariant.  After a construction that returned,
\* whatever the joint list (each joint with its entry in the skeleton file),
\* exactly one bone (the returned root) has no parent and every other bone is
\* reachable from it through parent links.
C14_AsStated == (Built /\ thrown = "" /\ AllHaveEntries) => SingleTree

---------------------------------------------------------------------------
(* C15 *)

\* C15 (inputs are read-only): no step of a retarget call changes the call's
\* arguments, so the source joints' rotations and offsets, the clip's tracks
\* and the target joints' rest rotations and positions are after the call what
\* they were before it, and the result is recorded against unchanged arguments;
\* the mapping tables are the same at every call.
C15_InputsReadOnly ==
    [][/\ pc \in {"idle", "passA", "passB", "assemble"} => args' = args
       /\ pc = "return" => results'[Len(results')].args = args
       /\ pc = "return" /\ phase \in {"first", "again"} => args = base]_vars

\* a call that searched the directions of a Delta-mode source and ran the
\* frame loop has returned
C15_Witness ==
    /\ Returned
    /\ firstTrack(args) # 0
    /\ fc(args) > 1
    /\ useDeltaRetarget(args)
    /\ DirectionSearched(args) # {}
    /\ \E i \in 1..Len(bvhNodes(args)) :
          /\ VLengthSq(bvhNodes(args)[i].position) > 0
          /\ bvhNodes(args)[i].position # VNormalize(bvhNodes(args)[i].position)

---------------------------------------------------------------------------
(* C16 *)

\* the mapped joints whose source world rotation the frame just computed holds
WithSourceWorld(a) ==
    {d \in Driven(a) :
        /\ Has(bvhWorldAnimQ, defToBvhName(a, d))
        /\ useDeltaRetarget(a) => Has(bvhRestWorldQ(a), defToBvhName(a, d))}

\* the desired world rotation of the claim, from the source world rotations
\* of the frame just computed
Desired(a, d) ==
    LET b == defToBvhName(a, d)
    IN  IF useDeltaRetarget(a)
        THEN QMultiply(QMultiply(bvhWorldAnimQ[b], QInvert(bvhRestWorldQ(a)[b])),
                       offsetQ(a, d))
        ELSE QMultiply(bvhWorldAnimQ[b], offsetQ(a, d))

---------------------------------------------------------------------------
(* C17 *)

\* the position of a name in a list of names, 0 if it is not there
PositionIn(seq, name) ==
    IF \E i \in 1..Len(seq) : seq[i] = name
    THEN CHOOSE i \in 1..Len(seq) : seq[i] = name
    ELSE 0

\* every target joint comes after its parent joint in the processing order
TargetParentsFirst(a) ==
    \A i \in 1..Len(allDefBonesSorted(a)) :
        Truthy(ParentOrigName(a.defSkel, allDefBonesSorted(a)[i])) =>
            LET p == PositionIn(allDefBonesSorted(a),
                                ParentOrigName(a.defSkel, allDefBonesSorted(a)[i]))
            IN  0 < p /\ p < i

\* every source joint of the walk comes after the joint it hangs under
SourceParentsFirst(a) ==
    \A i \in 1..Len(bvhBonesSorted(a)) :
        Truthy(bvhBoneParentName(a, bvhBonesSorted(a)[i])) =>
            LET p == PositionIn(bvhBonesSorted(a),
                                bvhBoneParentName(a, bvhBonesSorted(a)[i]))
            IN  0 < p /\ p < i

\* the frame loop is running
InFrameLoop == pc \in {"passA", "passB"}

\* C17 (parent-before-child ordering): in the processing orders of a call, the
\* same at every frame, every target joint comes after its parent and every
\* source joint after the joint it hangs under; and what a frame computes does
\* not depend on what the frame before left in the caches: step 1 gives the
\* source world rotations it would give on empty caches, and step 2 the world
\* and output rotations it would give on empty caches, so they are functions
\* of the source samples of the frame (and of frame 0 in Delta mode) alone.
C17_ParentBeforeChild ==
    /\ InFrameLoop => TargetParentsFirst(args) /\ SourceParentsFirst(args)
    /\ pc = "passA" =>
          BvhWorldPass(args, f, 1, bvhWorldAnimQ) = BvhWorldPass(args, f, 1, NoKeys)
    /\ pc = "passB" =>
          /\ bvhWorldAnimQ = BvhWorldPass(args, f, 1, NoKeys)
          /\ DefPass(args, bvhWorldAnimQ, f, 1,
                     [anim |-> defAnimWorldQ, quats |-> outputQuats])
             = DefPass(args, bvhWorldAnimQ, f, 1,
                       [anim |-> NoKeys, quats |-> outputQuats])

\* step 2 of the second frame is about to run on the rig whose bones are
\* listed child before parent, and the cache holds, for the parent of a mapped
\* joint, a rotation of the first frame that the second frame will replace by
\* another
C17_Witness ==
    /\ pc = "passB"
    /\ f = 1
    /\ args.defSkel = DefSkeleton("rig")
    /\ \E d \in Driven(args) :
          /\ Truthy(ParentOrigName(args.defSkel, d))
          /\ PositionIn(DefNames(args.defSkel), d)
                < PositionIn(DefNames(args.defSkel), ParentOrigName(args.defSkel, d))
          /\ defAnimWorldQ[ParentOrigName(args.defSkel, d)]
                # DefPass(args, bvhWorldAnimQ, f, 1,
                          [anim |-> defAnimWorldQ, quats |-> outputQuats]
                         ).anim[ParentOrigName(args.defSkel, d)]

---------------------------------------------------------------------------
(* C18 *)

\* the node a node of the source skeleton hangs under, 0 if none
ParentNode(a, i) ==
    LET up == {j \in 1..Len(bvhNodes(a)) :
                 \E k \in 1..Len(bvhNodes(a)[j].children) :
                     bvhNodes(a)[j].children[k] = i}
    IN  IF up = {} THEN 0 ELSE CHOOSE j \in up : TRUE

\* the local rotation of a source joint sampled at frame k: the keyframe of
\* its rotation track, identity if it has no rotation track
LocalSample(a, i, k) ==
    LET tracks == a.bvhResult.clip.tracks
        own == {t \in 1..Len(tracks) :
                  tracks[t].name = <<bvhNodes(a)[i].name, "quaternion">>}
    IN  IF own = {} THEN QIdentity ELSE tracks[CHOOSE t \in own : TRUE].values[k + 1]

\* the ordered product of the local rotations of frame k from the top of the
\* chain down to node i
RECURSIVE ChainProduct(_, _, _)
ChainProduct(a, i, k) ==
    IF ParentNode(a, i) = 0 THEN LocalSample(a, i, k)
    ELSE QMultiply(ChainProduct(a, ParentNode(a, i), k), LocalSample(a, i, k))

\* the nodes of the source skeleton under its root, the root included
RECURSIVE UnderRoot(_, _)
UnderRoot(a, i) ==
    \/ i = bvhRoot(a)
    \/ ParentNode(a, i) # 0 /\ UnderRoot(a, ParentNode(a, i))

DistinctNames(a) ==
    \A i, j \in 1..Len(bvhNodes(a)) :
        bvhNodes(a)[i].name = bvhNodes(a)[j].name => i = j

\* C18 (Pass A): when step 1 of a frame is done, for a source skeleton with
\* distinct joint names, the accumulated world rotation of every source joint
\* under the root is the ordered product of the local rotations sampled at
\* that frame along the chain from the root down to the joint, identity
\* standing for every joint without a rotation track.
C18_PassA ==
    (pc = "passB" /\ DistinctNames(args)) =>
        \A i \in 1..Len(bvhNodes(args)) :
            UnderRoot(args, i) =>
                /\ Has(bvhWorldAnimQ, bvhNodes(args)[i].name)
                /\ bvhWorldAnimQ[bvhNodes(args)[i].name] = ChainProduct(args, i, f)

\* step 1 of the second frame is done on a moving source whose spine has no
\* rotation track, and the head, two joints down the chain, has an accumulated
\* rotation that is neither its own sample nor its parent's accumulated one
C18_Witness ==
    /\ pc = "passB"
    /\ f = 1
    /\ DistinctNames(args)
    /\ \E i \in 1..Len(bvhNodes(args)) :
          /\ UnderRoot(args, i)
          /\ ParentNode(args, i) # 0
          /\ ParentNode(args, ParentNode(args, i)) # 0
          /\ ~HasRotationTrack(args, bvhNodes(args)[ParentNode(args, i)].name)
          /\ bvhWorldAnimQ[bvhNodes(args)[i].name] # LocalSample(args, i, f)
          /\ bvhWorldAnimQ[bvhNodes(args)[i].name]
                # bvhWorldAnimQ[bvhNodes(args)[ParentNode(args, i)].name]

---------------------------------------------------------------------------
(* C19 *)

\* the mapped joint's source joint is under the source root
SourceWalked(a, d) ==
    \E i \in 1..Len(bvhNodes(a)) :
        UnderRoot(a, i) /\ bvhNodes(a)[i].name = defToBvhName(a, d)

\* the source world rotation of frame k of the joint that drives d
SourceWorld(a, d, k) ==
    ChainProduct(a, CHOOSE i \in 1..Len(bvhNodes(a)) :
                        UnderRoot(a, i) /\ bvhNodes(a)[i].name = defToBvhName(a, d),
                 k)

\* what each mode records as the world rotation of d at frame k
DeltaWorld(a, d, k) ==
    QNormalize(QMultiply(QMultiply(SourceWorld(a, d, k),
                                   QInvert(SourceWorld(a, d, 0))),
                         offsetQ(a, d)))

WorldCopyWorld(a, d, k) == QNormalize(QMultiply(SourceWorld(a, d, k), offsetQ(a, d)))

---------------------------------------------------------------------------
(* C20 *)

\* the mapped joints that get a direction correction
Corrected(a) ==
    {d \in Driven(a) :
        d # rootDefName(a) /\ d \notin skipDirCorrectionBones(a.format)}

\* the node of the source joint that drives d
SourceNode(a, d) == bvhBoneByName(a, defToBvhName(a, d))

\* the direction of an offset in the source rest pose: in Delta mode the offset
\* turned by the frame-0 world rotation of the joint it is an offset from (node
\* i, 0 for none), otherwise the offset itself
PosedDirection(a, position, i) ==
    IF useDeltaRetarget(a) /\ i # 0 /\ UnderRoot(a, i)
    THEN VNormalize(VApplyQuaternion(position, ChainProduct(a, i, 0)))
    ELSE VNormalize(position)

\* the directions from the source joint of d to its child joints
ChildDirections(a, d) ==
    LET kids == bvhNodes(a)[SourceNode(a, d)].children
    IN  {PosedDirection(a, bvhNodes(a)[kids[k]].position, SourceNode(a, d)) :
            k \in {j \in 1..Len(kids) :
                     /\ bvhNodes(a)[kids[j]].isBone
                     /\ VLengthSq(bvhNodes(a)[kids[j]].position) > 0}}

\* v is a source rest direction of d: the child direction closest to the
\* target rest direction, or without a child the direction of the joint's own
\* offset
SourceRestDirection(a, d, v) ==
    IF ChildDirections(a, d) # {}
    THEN /\ v \in ChildDirections(a, d)
         /\ \A c \in ChildDirections(a, d) :
               VDot(c, defRestDir(a, d)) <= VDot(v, defRestDir(a, d))
    ELSE /\ VLengthSq(bvhNodes(a)[SourceNode(a, d)].position) > 0
         /\ v = PosedDirection(a, bvhNodes(a)[SourceNode(a, d)].position,
                               ParentNode(a, SourceNode(a, d)))

\* the joints with a usable source direction
Usable(a, d) ==
    /\ bvhDir(a, d, defToBvhName(a, d)) # VNull
    /\ ~IsNaNV(bvhDir(a, d, defToBvhName(a, d)))
    /\ VLengthSq(bvhDir(a, d, defToBvhName(a, d))) > 0

\* C20 (offset definition): for every mapped joint that is direction-corrected
\* and has a usable source direction, the offset is R * (world rest rotation),
\* where R takes the target rest direction, (0,0,-1) turned by the world rest
\* rotation, onto the source rest direction; and (0,0,-1) turned by the offset
\* is the source rest direction.
C20_OffsetDefinition ==
    (pc = "passA" /\ f = 0 /\ DistinctNames(args)) =>
        \A d \in Corrected(args) :
            Usable(args, d) =>
                LET src == bvhDir(args, d, defToBvhName(args, d))
                    rest == VNormalize(VApplyQuaternion(NEG_Z, defWorldRestQ(args, d)))
                    R == QSetFromUnitVectors(rest, src)
                IN  /\ SourceRestDirection(args, d, src)
                    /\ VApplyQuaternion(rest, R) = src
                    /\ offsetQ(args, d) = QMultiply(R, defWorldRestQ(args, d))
                    /\ VApplyQuaternion(NEG_Z, offsetQ(args, d)) = src

\* a call has computed, for a corrected joint, a correction by a quarter turn:
\* the source rest direction is at right angles to the target rest direction
C20_Witness ==
    /\ pc = "passA"
    /\ f = 0
    /\ DistinctNames(args)
    /\ \E d \in Corrected(args) :
          /\ Usable(args, d)
          /\ VDot(bvhDir(args, d, defToBvhName(args, d)), defRestDir(args, d)) = 0
          /\ offsetQ(args, d) # defWorldRestQ(args, d)

---------------------------------------------------------------------------
(* C21 *)

\* the first entry of a mapping table with a target, as the target it names
FirstTableTarget(mapping) ==
    mapping[CHOOSE i \in 1..Len(mapping) :
               /\ Truthy(mapping[i][2])
               /\ \A j \in 1..(i - 1) : ~Truthy(mapping[j][2])][2]

\* the first target of the table that the target skeleton has
MappingRoot(a) ==
    LET mapping == MappingFor(a.format)
        present == {i \in 1..Len(mapping) :
                      /\ Truthy(mapping[i][2])
                      /\ \E b \in 1..Len(a.defSkel.bones) :
                            a.defSkel.bones[b].orig = mapping[i][2]}
    IN  {mapping[i][2] : i \in {j \in present : \A k \in present : j <= k}}

FeetAndNeck ==
    {"DEF-foot.L", "DEF-foot.R", "DEF-toe.L", "DEF-toe.R",
     "DEF-spine.004", "DEF-spine.006"}

\* the exception list of each of the five formats
ExceptionList(format) ==
    CASE format = "AIST" -> FeetAndNeck
      [] format = "MOCAPNET" -> FeetAndNeck \cup {"DEF-jaw"}
      [] format \in {"CMU", "MIXAMO", "BANDAI"} -> {}

FiveFormats == {"CMU", "MIXAMO", "BANDAI", "AIST", "MOCAPNET"}

\* C21 (direction-correction exemptions): the first target of every table is
\* DEF-spine; in a call with one of the five format tags the exception list is
\* the one stated for the format, and the offset of the mapping root and of
\* every mapped joint of the exception list is the joint's world rest rotation,
\* as computed from the rest rotations up the target's parent chain.
C21_Exemptions ==
    /\ \A fm \in FiveFormats : FirstTableTarget(MappingFor(fm)) = "DEF-spine"
    /\ (pc = "passA" /\ f = 0 /\ args.format \in FiveFormats) =>
          /\ skipDirCorrectionBones(args.format) = ExceptionList(args.format)
          /\ MappingRoot(args) = {rootDefName(args)}
          /\ \A d \in Driven(args) :
                (d \in MappingRoot(args) \cup ExceptionList(args.format)) =>
                    /\ offsetQ(args, d) = defWorldRestQ(args, d)
                    /\ SameRotation(offsetQ(args, d),
                                    WorldRotation(args.defSkel, d))

\* a call has computed the offsets for a rig in which the mapping root and a
\* joint of the exception list both have a source direction that differs from
\* their rest direction, so that a correction would have changed both offsets
C21_Witness ==
    /\ pc = "passA"
    /\ f = 0
    /\ args.format \in {"AIST", "MOCAPNET"}
    /\ \E r \in MappingRoot(args) \cap Driven(args) :
       \E d \in (ExceptionList(args.format) \cap Driven(args)) \ {r} :
          /\ bvhDir(args, r, defToBvhName(args, r)) # VNull
          /\ bvhDir(args, r, defToBvhName(args, r)) # defRestDir(args, r)
          /\ bvhDir(args, d, defToBvhName(args, d)) # VNull
          /\ bvhDir(args, d, defToBvhName(args, d)) # defRestDir(args, d)
          /\ offsetQ(args, d) = defWorldRestQ(args, d)
          /\ offsetQ(args, r) = defWorldRestQ(args, r)

---------------------------------------------------------------------------
(* C22 *)

\* the children of the source joint of d that have a non-zero offset, in
\* child order
OffsetChildren(a, d) ==
    LET kids == bvhNodes(a)[SourceNode(a, d)].children
    IN  SelectSeq(kids, LAMBDA c : bvhNodes(a)[c].isBone
                                   /\ VLengthSq(bvhNodes(a)[c].position) > 0)

\* the frame-0 accumulated world rotation of source node i in Delta mode, the
\* identity in the other modes and for no node
RestTurn(a, i) ==
    IF a.format = "BANDAI" /\ i # 0 THEN ChainProduct(a, i, 0) ELSE QIdentity

\* the normalised offset of child c of the source joint of d
ChildDirection(a, d, c) ==
    VNormalize(VApplyQuaternion(bvhNodes(a)[c].position,
                                RestTurn(a, SourceNode(a, d))))

\* the first child, in child order, whose direction has the greatest dot
\* product with the target rest direction
BestAligned(a, d) ==
    LET cs == OffsetChildren(a, d)
        dot(k) == VDot(ChildDirection(a, d, cs[k]), defRestDir(a, d))
    IN  cs[CHOOSE k \in 1..Len(cs) :
              /\ \A j \in 1..Len(cs) : dot(j) <= dot(k)
              /\ \A j \in 1..(k - 1) : dot(j) < dot(k)]

\* the joint's own normalised offset from its parent
OwnDirection(a, d) ==
    VNormalize(VApplyQuaternion(bvhNodes(a)[SourceNode(a, d)].position,
                                RestTurn(a, ParentNode(a, SourceNode(a, d)))))

\* the joints the direction search is made for, with their source joint in
\* the walked tree and a rotation sample at frame 0 for every track
Searched(a) ==
    {d \in Corrected(a) : UnderRoot(a, SourceNode(a, d))}

C22_WitnessDelta ==
    /\ pc = "passA"
    /\ f = 0
    /\ DistinctNames(args)
    /\ args.format = "BANDAI"
    /\ \E d \in Searched(args) :
          /\ OffsetChildren(args, d) # << >>
          /\ bvhDir(args, d, defToBvhName(args, d))
               # VNormalize(bvhNodes(args)[BestAligned(args, d)].position)

---------------------------------------------------------------------------
(* C23 *)

\* the joints the direction search is made for whose source joint has no
\* child with a non-zero offset and a zero offset of its own
Degenerate(a) ==
    {d \in Corrected(a) :
        /\ OffsetChildren(a, d) = << >>
        /\ VLengthSq(bvhNodes(a)[SourceNode(a, d)].position) = 0}

\* d itself and the target joints under it
RECURSIVE IsUnder(_, _, _)
IsUnder(a, c, d) ==
    \/ c = d
    \/ /\ Truthy(ParentOrigName(a.defSkel, c))
       /\ IsUnder(a, ParentOrigName(a.defSkel, c), d)

SubTree(a, d) ==
    {c \in {DefNames(a.defSkel)[i] : i \in 1..Len(a.defSkel.bones)} :
        IsUnder(a, c, d)}

\* the source samples of the clip are numbers
FiniteSamples(a) == \A q \in QuatSamples(a) : ~IsNaNQ(q)

\* C23 (degenerate direction): the offset of a mapped joint without a usable
\* source direction is the joint's world rest rotation and is not NaN; after
\* every frame the rotations written for the joint and for the joints under it
\* are not NaN, and neither are the keyframes of their tracks in the returned
\* clip.
C23_DegenerateDirection ==
    /\ (pc \in {"passA", "passB", "assemble", "return"} /\ firstTrack(args) # 0) =>
          \A d \in Degenerate(args) :
             /\ offsetQ(args, d) = defWorldRestQ(args, d)
             /\ ~IsNaNQ(offsetQ(args, d))
    /\ (FrameDone /\ FiniteSamples(args)) =>
          \A d \in Degenerate(args) : \A c \in SubTree(args, d) :
             /\ Has(defAnimWorldQ, c) /\ ~IsNaNQ(defAnimWorldQ[c])
             /\ c \in DOMAIN outputQuats =>
                   \A k \in 1..f : ~IsNaNQ(outputQuats[c][k])
    /\ (Returned /\ firstTrack(args) # 0 /\ FiniteSamples(args)) =>
          \A d \in Degenerate(args) : \A c \in SubTree(args, d) :
             QuatTrackOf(out, args, c) # 0 =>
                \A k \in 1..Len(out.tracks[QuatTrackOf(out, args, c)].values) :
                   ~IsNaNQ(out.tracks[QuatTrackOf(out, args, c)].values[k])

\* a clip came back for a moving source in which a mapped joint has no usable
\* source direction and a driven joint under it; both have a full track
C23_Witness ==
    /\ Returned
    /\ firstTrack(args) # 0
    /\ ~AllIdentity(args)
    /\ \E d \in Degenerate(args) :
          /\ QuatTrackOf(out, args, d) # 0
          /\ Len(out.tracks[QuatTrackOf(out, args, d)].values) = MaxFrames
          /\ \E c \in (SubTree(args, d) \cap ReachedDriven(args)) \ {d} :
                QuatTrackOf(out, args, c) # 0

---------------------------------------------------------------------------
(* C24 *)

\* the product of the rest rotations of the source bones from the root down
\* to node i, the identity for no node
RECURSIVE RestChain(_, _)
RestChain(a, i) ==
    IF i = 0 THEN QIdentity
    ELSE QMultiply(RestChain(a, ParentNode(a, i)), bvhNodes(a)[i].quaternion)

\* the world position of source node i: the parent's world position plus the
\* offset turned by the parent's accumulated world rotation
RECURSIVE RestWorldPosition(_, _)
RestWorldPosition(a, i) ==
    LET p == ParentNode(a, i)
    IN  VAdd(IF p = 0 THEN Vec(0, 0, 0) ELSE RestWorldPosition(a, p),
             VApplyQuaternion(bvhNodes(a)[i].position, RestChain(a, p)))

\* the heights of the joints of the tree
JointHeights(a) ==
    {RestWorldPosition(a, i)[2] : i \in {j \in 1..Len(bvhNodes(a)) : UnderRoot(a, j)}}

\* the vertical extent of the joints of the tree
VerticalExtent(a) ==
    (CHOOSE hi \in JointHeights(a) : \A y \in JointHeights(a) : y <= hi)
    - (CHOOSE lo \in JointHeights(a) : \A y \in JointHeights(a) : lo <= y)

\* a later child of a joint whose earlier sibling, or a joint under it, is
\* turned
AfterTurnedSibling(a) ==
    \E i \in 1..Len(bvhNodes(a)) :
        /\ UnderRoot(a, i)
        /\ Len(bvhNodes(a)[i].children) > 1
        /\ \E j \in 1..Len(bvhNodes(a)) :
              /\ bvhNodes(a)[j].quaternion # QIdentity
              /\ \/ j = bvhNodes(a)[i].children[1]
                 \/ ParentNode(a, j) = bvhNodes(a)[i].children[1]

\* C24 (source height measurement), as stated: in every call with a rotation
\* track the source height behind the scale factor is the vertical extent of
\* the world positions of all joints of the tree, each the parent's world
\* position plus the offset turned by the parent's accumulated world rotation,
\* and not less than 0.01.
C24_AsStated ==
    (pc = "passA" /\ f = 0 /\ DistinctNames(args)) =>
        bvhHeight(args) = RatMax(RatInt(VerticalExtent(args)), MinHeight)

\* the measurement is the stated one when no later child comes after a turned
\* sibling
C24_HeightWithoutTurnedSibling ==
    (pc = "passA" /\ f = 0 /\ DistinctNames(args) /\ ~AfterTurnedSibling(args)) =>
        bvhHeight(args) = RatMax(RatInt(VerticalExtent(args)), MinHeight)

---------------------------------------------------------------------------
(* C25 *)

\* the diagnostics in their order: 1 AIST, 2 BANDAI, 3 Hips and LeftArm,
\* 4 MOCAPNET
Diagnostic(n, names) ==
    CASE n = 1 -> "Pelvis" \in names /\ "Left_hip" \in names
      [] n = 2 -> "Chest" \in names /\ "UpperArm_L" \in names
      [] n = 3 -> "Hips" \in names /\ "LeftArm" \in names
      [] n = 4 -> "hip" \in names \/ "rshoulder" \in names

\* the tag of each diagnostic
DiagnosticTag(n, names) ==
    CASE n = 1 -> "AIST"
      [] n = 2 -> "BANDAI"
      [] n = 3 -> IF "Spine2" \in names THEN "MIXAMO" ELSE "CMU"
      [] n = 4 -> "MOCAPNET"

Satisfied(names) == {n \in 1..4 : Diagnostic(n, names)}

\* C25 (classifier priority): the tag detectBVHFormat returns for a name set
\* that satisfies one or more diagnostics is the tag of the earliest one in the
\* order AIST, BANDAI, Hips-and-LeftArm, MOCAPNET; a name set with Hips and
\* LeftArm that is neither AIST nor BANDAI gets MIXAMO if and only if it holds
\* Spine2, and CMU otherwise.
C25_ClassifierPriority ==
    tag # NotCalled =>
        LET names == BoneNames(bones)
        IN  /\ \A n \in Satisfied(names) :
                  (\A m \in Satisfied(names) : n <= m) =>
                      tag = DiagnosticTag(n, names)
            /\ (Diagnostic(3, names) /\ ~Diagnostic(1, names) /\ ~Diagnostic(2, names)) =>
                  /\ tag \in {"MIXAMO", "CMU"}
                  /\ tag = "MIXAMO" <=> "Spine2" \in names
                  /\ tag = "CMU" <=> "Spine2" \notin names

\* the classifier has returned MIXAMO for bones that also satisfy the MOCAPNET
\* diagnostic
C25_Witness ==
    /\ tag = "MIXAMO"
    /\ Satisfied(BoneNames(bones)) = {3, 4}

\* the classifier has returned AIST for bones that also satisfy the BANDAI
\* diagnostic
C25_WitnessFirst ==
    /\ tag = "AIST"
    /\ {1, 2} \subseteq Satisfied(BoneNames(bones))

---------------------------------------------------------------------------
(* C26 *)

\* the table entries for target joint d whose source joint is in the source
\* skeleton
PresentEntries(a, d) ==
    {i \in 1..Len(MappingFor(a.format)) :
        /\ MappingFor(a.format)[i][2] = d
        /\ InSourceSkeleton(a, MappingFor(a.format)[i][1])}

\* the source joint of the last of them in table order
LastDriver(a, d) ==
    MappingFor(a.format)[CHOOSE i \in PresentEntries(a, d) :
                            \A j \in PresentEntries(a, d) : j <= i][1]

\* the target joints with a source joint in the source skeleton
WithDriver(a) == {d \in Candidates(a) : PresentEntries(a, d) # {}}

\* the rotation tracks of a clip that animate target joint d
TracksFor(clip, a, d) ==
    {i \in RotationTrackIndexes(clip) :
        clip.tracks[i].name
          = <<a.defSkel.bones[DefIndex(a.defSkel, d)].name, "quaternion">>}

\* C26 (one driver and one track per target joint): a returned clip has no two
\* rotation tracks of one name and at most one rotation track per target
\* joint; in every frame of the call every target joint with a source joint in
\* the source skeleton is driven by one and the same source joint, the one of
\* the last table entry for it whose source joint is in the skeleton: that is
\* the joint the offset was solved for, and the world rotation written for the
\* frame is that joint's world rotation composed with the offset.
C26_OneDriver ==
    /\ Returned =>
          /\ \A i, j \in RotationTrackIndexes(out) :
                out.tracks[i].name = out.tracks[j].name => i = j
          /\ \A d \in TargetJoints(args) :
                Cardinality(TracksFor(out, args, d)) <= 1
    /\ (pc \in {"passA", "passB", "assemble"} /\ DistinctNames(args)) =>
          \A d \in WithDriver(args) :
             /\ d \in Driven(args)
             /\ defToBvhName(args, d) = LastDriver(args, d)
    /\ (FrameDone /\ DistinctNames(args) /\ ~useDeltaRetarget(args)) =>
          \A d \in WithDriver(args) :
             Has(bvhWorldAnimQ, LastDriver(args, d)) =>
                defAnimWorldQ[d] =
                   QNormalize(QMultiply(bvhWorldAnimQ[LastDriver(args, d)],
                                        offsetQ(args, d)))

\* a clip came back for a source skeleton that has both source joints the
\* table gives for a target joint, the two moving differently; the target has
\* its one track, driven by the later entry
C26_Witness ==
    /\ Returned
    /\ DistinctNames(args)
    /\ \E d \in WithDriver(args) :
          /\ Cardinality(PresentEntries(args, d)) = 2
          /\ Cardinality(TracksFor(out, args, d)) = 1
          /\ defToBvhName(args, d) = "lThigh"
          /\ \E i \in PresentEntries(args, d) :
                /\ MappingFor(args.format)[i][1] # LastDriver(args, d)
                /\ LocalSample(args, bvhBoneByName(args, MappingFor(args.format)[i][1]), 0)
                     # LocalSample(args, bvhBoneByName(args, LastDriver(args, d)), 0)

---------------------------------------------------------------------------
(* C27 *)

\* the same call with the tag MOCAPNET
AsMocapnet(a) == [a EXCEPT !.format = "MOCAPNET"]

MocapnetList == FeetAndNeck \cup {"DEF-jaw"}

\* C27 (UNKNOWN is not MOCAPNET for offsets): a call with the tag UNKNOWN uses
\* the MocapNET table, WorldCopy mode, and the mapping, drivers, root and rest
\* rotations of the same call tagged MOCAPNET, but an empty exception list:
\* the offset of a mapped joint outside the MocapNET list is the one of the
\* MOCAPNET call, the offset of a mapped joint of the list (the mapping root
\* aside) is direction-corrected where the MOCAPNET call has the raw world
\* rest rotation; and when no mapped joint is in the list, each frame and the
\* returned clip are those of the MOCAPNET call.
C27_UnknownVersusMocapnet ==
    (args.format = "UNKNOWN" /\ pc \in {"passA", "passB", "assemble", "return"}
       /\ firstTrack(args) # 0) =>
        /\ MappingFor("UNKNOWN") = BVH_TO_DEF_MOCAPNET
        /\ ~useDeltaRetarget(args) /\ ~useDeltaRetarget(AsMocapnet(args))
        /\ skipDirCorrectionBones("UNKNOWN") = {}
        /\ skipDirCorrectionBones("MOCAPNET") = MocapnetList
        /\ mappedDefNames(args) = mappedDefNames(AsMocapnet(args))
        /\ rootDefName(args) = rootDefName(AsMocapnet(args))
        /\ \A d \in Driven(args) :
              /\ defToBvhName(args, d) = defToBvhName(AsMocapnet(args), d)
              /\ d \notin MocapnetList =>
                    offsetQ(args, d) = offsetQ(AsMocapnet(args), d)
              /\ (d \in MocapnetList /\ d # rootDefName(args)) =>
                    /\ offsetQ(AsMocapnet(args), d) = defWorldRestQ(args, d)
                    /\ Usable(args, d) =>
                          offsetQ(args, d) =
                             QMultiply(QSetFromUnitVectors(
                                           defRestDir(args, d),
                                           bvhDir(args, d, defToBvhName(args, d))),
                                       defWorldRestQ(args, d))
        /\ (Driven(args) \cap MocapnetList = {}) =>
              /\ FrameDone =>
                    DefPass(AsMocapnet(args),
                            BvhWorldPass(AsMocapnet(args), f - 1, 1, bvhWorldAnimQ),
                            f - 1, 1,
                            [anim |-> defAnimWorldQ, quats |-> outputQuats])
                      = [anim |-> defAnimWorldQ, quats |-> outputQuats]
              /\ Returned =>
                    out = [duration |-> args.bvhResult.clip.duration,
                           tracks |-> newTracks(AsMocapnet(args), outputQuats)]

\* a call tagged UNKNOWN has solved, for a mapped joint of the MocapNET list,
\* an offset that is not the raw world rest rotation the MOCAPNET call has
C27_Witness ==
    /\ args.format = "UNKNOWN"
    /\ pc = "passA"
    /\ f = 1
    /\ \E d \in (Driven(args) \cap MocapnetList) \ {rootDefName(args)} :
          /\ Usable(args, d)
          /\ offsetQ(args, d) # defWorldRestQ(args, d)
          /\ offsetQ(AsMocapnet(args), d) = defWorldRestQ(args, d)

\* a clip came back for a call tagged UNKNOWN of a moving source in which no
\* mapped joint is in the MocapNET list
C27_WitnessSameClip ==
    /\ args.format = "UNKNOWN"
    /\ Returned
    /\ firstTrack(args) # 0
    /\ ~AllIdentity(args)
    /\ Driven(args) # {}
    /\ Driven(args) \cap MocapnetList = {}

---------------------------------------------------------------------------
(* The scene viewer (scene_config.js): the animation loads of one page.  The
   event loop runs one handler at a time to its end; a BVH load completes some
   time after its request, in any order with the other loads and with the
   frames of the render loop. *)

\* the most animation loads one page requests
MaxLoads == 3

SceneInit ==
    /\ SceneIdle
    /\ ResultIdle
    /\ CallIdle
    /\ DetectIdle
    /\ BuildIdle

\* loadMesh has set bodyMesh
MeshArrives ==
    /\ ~meshLoaded
    /\ meshLoaded' = TRUE
    /\ UNCHANGED <<mixer, currentAction, playing, isSkinned, rigLoaded, autoPlayed,
                   inFlight, started, moved, calls>>
    /\ UNCHANGED <<callVars, detectVars, buildVars, resultVars>>

\* loadDefSkeleton and loadSkinWeights have set their data
RigArrives ==
    /\ ~rigLoaded
    /\ rigLoaded' = TRUE
    /\ UNCHANGED <<mixer, currentAction, playing, isSkinned, meshLoaded, autoPlayed,
                   inFlight, started, moved, calls>>
    /\ UNCHANGED <<callVars, detectVars, buildVars, resultVars>>

\* stopAnimation(true) followed by bvhLoader.load(url, ...): the action and the
\* mixer are stopped and dropped, the skinned skeleton is put back in its bind
\* pose, and a load is on its way
loadBVHAnimation ==
    /\ started < MaxLoads
    /\ currentAction' = FALSE
    /\ mixer' = "null"
    /\ moved' = IF isSkinned THEN FALSE ELSE moved
    /\ playing' = FALSE
    /\ inFlight' = inFlight + 1
    /\ started' = started + 1
    /\ UNCHANGED <<isSkinned, meshLoaded, rigLoaded, calls>>

\* the default animation of the settings, once bodyMesh is there
AutoPlay ==
    /\ ~autoPlayed
    /\ meshLoaded
    /\ autoPlayed' = TRUE
    /\ loadBVHAnimation
    /\ UNCHANGED <<callVars, detectVars, buildVars, resultVars>>

\* a click on the demo button: load, pause or resume
DemoClick ==
    /\ IF ~currentAction
       THEN loadBVHAnimation
       ELSE /\ playing' = ~playing
            /\ UNCHANGED <<mixer, currentAction, isSkinned, meshLoaded, rigLoaded,
                           inFlight, started, moved, calls>>
    /\ UNCHANGED autoPlayed
    /\ UNCHANGED <<callVars, detectVars, buildVars, resultVars>>

\* the onLoad callback of a BVH load: with the mesh and the rig data the clip
\* is retargeted onto the DEF skeleton as it stands and played by a new mixer
\* on the body mesh, otherwise the BVH skeleton itself is played
LoadCompletes ==
    /\ inFlight > 0
    /\ inFlight' = inFlight - 1
    /\ \E empty \in BOOLEAN :
          IF empty
          THEN UNCHANGED <<mixer, currentAction, playing, isSkinned, moved, calls>>
          ELSE /\ currentAction' = TRUE
               /\ playing' = TRUE
               /\ IF rigLoaded /\ meshLoaded
                  THEN /\ isSkinned' = TRUE
                       /\ calls' = Append(calls, [atRest |-> ~moved,
                                                  mixer |-> mixer])
                       /\ mixer' = "bodyMesh"
                  ELSE /\ mixer' = "rootBone"
                       /\ UNCHANGED <<isSkinned, calls>>
               /\ UNCHANGED moved
    /\ UNCHANGED <<meshLoaded, rigLoaded, autoPlayed, started>>
    /\ UNCHANGED <<callVars, detectVars, buildVars, resultVars>>

\* the onError callback of a BVH load
LoadFails ==
    /\ inFlight > 0
    /\ inFlight' = inFlight - 1
    /\ UNCHANGED <<mixer, currentAction, playing, isSkinned, meshLoaded, rigLoaded,
                   autoPlayed, started, moved, calls>>
    /\ UNCHANGED <<callVars, detectVars, buildVars, resultVars>>

\* a frame of the render loop: if (mixer && playing) mixer.update(dt), which
\* writes the clip's rotations into the bones the mixer animates
animate ==
    /\ mixer # "null"
    /\ playing
    /\ moved' = (moved \/ mixer = "bodyMesh")
    /\ UNCHANGED <<mixer, currentAction, playing, isSkinned, meshLoaded, rigLoaded,
                   autoPlayed, inFlight, started, calls>>
    /\ UNCHANGED <<callVars, detectVars, buildVars, resultVars>>

SceneNext ==
    \/ MeshArrives \/ RigArrives \/ AutoPlay \/ DemoClick
    \/ LoadCompletes \/ LoadFails \/ animate

SceneSpec == SceneInit /\ [][SceneNext]_vars

---------------------------------------------------------------------------
(* C28 *)

\* C28 (rest-pose precondition at call time), as stated: at every call of
\* retargetBVHToDefClip by the viewer the DEF skeleton is in its rest pose, no
\* mixer started earlier having moved its bones, whatever the order of load
\* requests, load completions and frames.
C28_AsStated ==
    \A i \in 1..Len(calls) : calls[i].atRest

\* a call made while no other load was completed in between is made at rest:
\* the request put the skeleton in its bind pose and dropped the mixer
C28_AtRestAfterOwnRequest ==
    \A i \in 1..Len(calls) : calls[i].mixer = "null" => calls[i].atRest

---------------------------------------------------------------------------
(* The result viewer (retarget.js 1244-2300): its body-type switches.  Each
   call of reloadForBodyType runs to its await, its two loads complete later
   in any order with the loads of the other calls, and the rest of the call
   runs when the second of its loads has completed. *)

BodyTypes == {"Female_Caucasian", "Male_Caucasian", "Female_Asian"}

\* the most switch requests of one page
MaxSwitches == 3

\* the page after its first load: the skinned mesh of the default body type
ResultInit ==
    /\ currentBodyType = "Female_Caucasian"
    /\ bodyMesh = BodyMesh("Female_Caucasian", 0, TRUE)
    /\ bodyGeometry = "Female_Caucasian"
    /\ skinWeightData = "Female_Caucasian"
    /\ rcIsSkinned = TRUE
    /\ cachedBvhResult \in BOOLEAN
    /\ rcMixer = cachedBvhResult
    /\ scene = {BodyMesh("Female_Caucasian", 0, TRUE)}
    /\ reloads = {}
    /\ switches = 0
    /\ loadFailed = FALSE
    /\ SceneIdle
    /\ CallIdle
    /\ DetectIdle
    /\ BuildIdle

\* reloadForBodyType up to its await (lines 1720-1760), on a change of a
\* dropdown or a reload_mesh message
reloadForBodyType ==
    /\ switches < MaxSwitches
    /\ switches' = switches + 1
    /\ \E newType \in BodyTypes :
          IF newType = currentBodyType
          THEN UNCHANGED <<currentBodyType, bodyMesh, bodyGeometry, rcIsSkinned,
                           rcMixer, scene, reloads>>
          ELSE /\ currentBodyType' = newType
               /\ rcMixer' = FALSE
               /\ scene' = scene \ {bodyMesh}
               /\ bodyMesh' = NoBodyMesh
               /\ bodyGeometry' = Null
               /\ rcIsSkinned' = FALSE
               /\ reloads' = reloads \cup
                     {[by |-> switches + 1, type |-> newType,
                       mesh |-> FALSE, weights |-> FALSE]}
    /\ UNCHANGED <<skinWeightData, cachedBvhResult, loadFailed>>
    /\ UNCHANGED <<callVars, detectVars, buildVars, sceneVars>>

\* the rest of reloadForBodyType after Promise.all (lines 1762-1771), on the
\* page as the last load left it: st is [bodyMesh, bodyGeometry,
\* skinWeightData, scene]
AfterLoads(st) ==
    LET convert == st.bodyMesh # NoBodyMesh /\ st.skinWeightData # Null
                   /\ ~rcIsSkinned /\ st.bodyGeometry # Null
        skinnedMesh == [st.bodyMesh EXCEPT !.skinned = TRUE]
    IN  /\ bodyMesh' = IF convert THEN skinnedMesh ELSE st.bodyMesh
        /\ scene' = IF convert
                    THEN (st.scene \ {st.bodyMesh}) \cup {skinnedMesh}
                    ELSE st.scene
        /\ rcIsSkinned' = (rcIsSkinned \/ convert)
        /\ rcMixer' = IF (rcIsSkinned \/ convert) /\ cachedBvhResult
                      THEN TRUE ELSE rcMixer
        /\ bodyGeometry' = st.bodyGeometry
        /\ skinWeightData' = st.skinWeightData

\* a load of switch r has completed and leaves the page as st; with the other
\* load of the switch still out that is all, otherwise the rest of
\* reloadForBodyType runs
Settle(r, done, st, failed) ==
    /\ loadFailed' = (loadFailed \/ failed)
    /\ IF done.mesh /\ done.weights
       THEN /\ reloads' = reloads \ {r}
            /\ AfterLoads(st)
       ELSE /\ reloads' = (reloads \ {r}) \cup {done}
            /\ bodyMesh' = st.bodyMesh
            /\ bodyGeometry' = st.bodyGeometry
            /\ skinWeightData' = st.skinWeightData
            /\ scene' = st.scene
            /\ UNCHANGED <<rcIsSkinned, rcMixer>>
    /\ UNCHANGED <<currentBodyType, cachedBvhResult, switches>>
    /\ UNCHANGED <<callVars, detectVars, buildVars, sceneVars>>

\* loadMesh(bodyType) after its fetch (lines 1806-1863): the new mesh becomes
\* bodyMesh and is added to the scene
loadMesh ==
    \E r \in reloads : \E ok \in BOOLEAN :
        /\ ~r.mesh
        /\ Settle(r, [r EXCEPT !.mesh = TRUE],
                  [bodyMesh |-> IF ok THEN BodyMesh(r.type, r.by, FALSE) ELSE bodyMesh,
                   bodyGeometry |-> IF ok THEN r.type ELSE bodyGeometry,
                   skinWeightData |-> skinWeightData,
                   scene |-> IF ok THEN scene \cup {BodyMesh(r.type, r.by, FALSE)}
                             ELSE scene],
                  ~ok)

\* loadSkinWeights(bodyType) after its fetch (lines 1879-1889)
loadSkinWeights ==
    \E r \in reloads : \E ok \in BOOLEAN :
        /\ ~r.weights
        /\ Settle(r, [r EXCEPT !.weights = TRUE],
                  [bodyMesh |-> bodyMesh,
                   bodyGeometry |-> bodyGeometry,
                   skinWeightData |-> IF ok THEN r.type ELSE skinWeightData,
                   scene |-> scene],
                  ~ok)

ResultNext == reloadForBodyType \/ loadMesh \/ loadSkinWeights

ResultSpec == ResultInit /\ [][ResultNext]_vars

---------------------------------------------------------------------------
(* C29 *)

\* every switch has its loads behind it
AllLoadsCompleted == switches > 0 /\ reloads = {}

\* C29 (body-type switching), as stated: after any sequence of switch
\* requests, once all pending loads have completed (none having failed), the
\* scene holds exactly one body mesh, it is the one bodyMesh refers to, and it
\* was loaded for currentBodyType.
C29_AsStated ==
    (AllLoadsCompleted /\ ~loadFailed) =>
        /\ Cardinality(scene) = 1
        /\ scene = {bodyMesh}
        /\ bodyMesh.type = currentBodyType

---------------------------------------------------------------------------
(* retargetBVHToDefClip, the hybrid variant (retarget.js 186-405): CONJUGATION
   for spine and legs, WORLD_COPY for the other mapped joints, SKIP for head
   and shoulders.  It runs on the variables of a call: args, pc, f,
   defAnimWorldQ (its animWorldQ), outputQuats, out, raised. *)

\* the keys the hybrid variant's MocapNET table does not have
LaterSpellings ==
    {"lCollar", "rCollar", "lShldr", "rShldr", "lForeArm", "rForeArm", "lHand",
     "rHand", "lThigh", "rThigh", "lShin", "rShin", "lFoot", "rFoot", "lButtock",
     "rButtock", "toe1-1.L", "toe1-1.R"}

\* const mapping = format === 'CMU' ? BVH_TO_DEF_CMU : BVH_TO_DEF_MOCAPNET, the
\* tables of lines 27-150
hybridMapping(format) ==
    IF format = "CMU" THEN BVH_TO_DEF_CMU
    ELSE SelectSeq(BVH_TO_DEF_MOCAPNET, LAMBDA e : e[1] \notin LaterSpellings)

CONJUGATION_BONES ==
    {"DEF-spine", "DEF-spine.001", "DEF-spine.003", "DEF-spine.004",
     "DEF-thigh.L", "DEF-thigh.R", "DEF-shin.L", "DEF-shin.R",
     "DEF-foot.L", "DEF-foot.R", "DEF-toe.L", "DEF-toe.R"}

SKIP_BONES == {"DEF-spine.006", "DEF-shoulder.L", "DEF-shoulder.R"}

\* the entries that write defToBvhName (lines 208-211)
hybridMatches(a) ==
    {i \in 1..Len(hybridMapping(a.format)) :
        /\ Truthy(hybridMapping(a.format)[i][2])
        /\ bvhBoneByName(a, hybridMapping(a.format)[i][1]) # 0
        /\ DefIndex(a.defSkel, hybridMapping(a.format)[i][2]) # 0}

hybridDefToBvhName(a, defName) ==
    LET hits == {i \in hybridMatches(a) : hybridMapping(a.format)[i][2] = defName}
    IN  IF hits = {} THEN Undefined
        ELSE hybridMapping(a.format)[CHOOSE i \in hits : \A j \in hits : j <= i][1]

\* the keys of defToBvhName in insertion order
hybridMappedDefNames(a) ==
    LET mapping == hybridMapping(a.format)
        firsts == {i \in hybridMatches(a) :
                      \A j \in hybridMatches(a) : j < i => mapping[j][2] # mapping[i][2]}
    IN  [k \in 1..Cardinality(firsts) |->
            mapping[CHOOSE i \in firsts :
                        Cardinality({j \in firsts : j <= i}) = k][2]]

\* the bones of bone.children, in the order they were added
boneChildren(defSkel, orig) ==
    LET idx == SelectSeq([i \in 1..Len(defSkel.bones) |-> i],
                         LAMBDA i : defSkel.bones[i].parent = orig)
    IN  [k \in 1..Len(idx) |-> defSkel.bones[idx[k]].orig]

\* the breadth-first walk from defSkel.rootBone (lines 219-227)
RECURSIVE bfs(_, _, _)
bfs(defSkel, bfsQueue, order) ==
    IF bfsQueue = << >> THEN order
    ELSE bfs(defSkel, Tail(bfsQueue) \o boneChildren(defSkel, Head(bfsQueue)),
             Append(order, Head(bfsQueue)))

hierarchyOrder(a) == bfs(a.defSkel, <<a.defSkel.rootBone>>, << >>)

defLocalRestQ(a, orig) == a.defSkel.bones[DefIndex(a.defSkel, orig)].quaternion

\* the buffers of lines 269-275: one per mapped joint outside SKIP_BONES
hybridOutputQuats(a) ==
    [d \in {hybridMappedDefNames(a)[k] : k \in 1..Len(hybridMappedDefNames(a))}
           \ SKIP_BONES |-> ZeroBuffer(fc(a))]

\* step 1 of frame k (lines 289-298): every bone with a rotation track gets the
\* track's keyframe
PosedNodes(a, k) ==
    [i \in 1..Len(bvhNodes(a)) |->
        IF (\E j \in 1..Len(bvhBones(a)) : bvhBones(a)[j] = i)
           /\ bvhQuatTracks(a, bvhNodes(a)[i].name) # 0
        THEN [bvhNodes(a)[i] EXCEPT
                 !.quaternion =
                     SampleQ(TrackAt(a, bvhQuatTracks(a, bvhNodes(a)[i].name)), k)]
        ELSE bvhNodes(a)[i]]

\* the parent of node i, 0 for none
bvhParent(nodes, i) ==
    LET up == {j \in 1..Len(nodes) :
                 \E c \in 1..Len(nodes[j].children) : nodes[j].children[c] = i}
    IN  IF up = {} THEN 0 ELSE CHOOSE j \in up : TRUE

\* the rotation of a BVH bone's matrixWorld
RECURSIVE bvhWorldRotation(_, _)
bvhWorldRotation(nodes, i) ==
    IF bvhParent(nodes, i) = 0 THEN nodes[i].quaternion
    ELSE QMultiply(bvhWorldRotation(nodes, bvhParent(nodes, i)), nodes[i].quaternion)

\* delta = M * bvhLocalQ * inverse(M) with M = inverse(defWorldRestQ), then
\* localQ = defLocalRestQ * delta (lines 316-327)
ConjugatedLocalQ(a, defName, bvhLocalQ) ==
    LET Conj(M) == QMultiply(defLocalRestQ(a, defName),
                             QMultiply(QMultiply(M, bvhLocalQ), QInvert(M)))
    IN  Conj(QInvert(defWorldRestQ(a, defName)))

\* step 2 of frame k for the bones of hierarchyOrder from index i on (lines
\* 301-355); s is [anim, quats]
RECURSIVE HybridPass(_, _, _, _, _)
HybridPass(a, nodes, k, i, s) ==
    IF i > Len(hierarchyOrder(a)) THEN s
    ELSE LET defName == hierarchyOrder(a)[i]
             parentName == a.defSkel.bones[DefIndex(a.defSkel, defName)].parent
             hasParent == parentName \notin {NoParent, Wrapper}
                          /\ parentName \in DOMAIN s.anim
             mapped == hybridDefToBvhName(a, defName) # Undefined
             World(bvhName) ==
                 IF ~mapped \/ defName \in SKIP_BONES
                 THEN IF hasParent
                      THEN QMultiply(s.anim[parentName], defLocalRestQ(a, defName))
                      ELSE defWorldRestQ(a, defName)
                 ELSE IF defName \in CONJUGATION_BONES
                 THEN IF hasParent
                      THEN QMultiply(s.anim[parentName],
                                     ConjugatedLocalQ(a, defName,
                                         nodes[bvhBoneByName(a, bvhName)].quaternion))
                      ELSE ConjugatedLocalQ(a, defName,
                               nodes[bvhBoneByName(a, bvhName)].quaternion)
                 ELSE QFromRotationMatrix(
                          bvhWorldRotation(nodes, bvhBoneByName(a, bvhName)))
             Written(w) ==
                 [anim |-> [s.anim EXCEPT ![defName] = w],
                  quats |-> IF mapped /\ defName \notin SKIP_BONES
                            THEN [s.quats EXCEPT ![defName][k + 1] =
                                    IF hasParent
                                    THEN QNormalize(QMultiply(
                                             QInvert(s.anim[parentName]), w))
                                    ELSE w]
                            ELSE s.quats]
         IN  HybridPass(a, nodes, k, i + 1,
                        Written(World(hybridDefToBvhName(a, defName))))

\* the rotation tracks of lines 369-376
hybridRotationTracks(a, quats) ==
    LET names == SelectSeq(hybridMappedDefNames(a), LAMBDA d : d \notin SKIP_BONES)
    IN  [k \in 1..Len(names) |->
            [name |-> <<a.defSkel.bones[DefIndex(a.defSkel, names[k])].name,
                        "quaternion">>,
             times |-> times(a),
             values |-> quats[names[k]]]]

\* the world position of a BVH bone
RECURSIVE bvhWorldPosition(_, _)
bvhWorldPosition(nodes, i) ==
    IF bvhParent(nodes, i) = 0 THEN nodes[i].position
    ELSE VAdd(bvhWorldPosition(nodes, bvhParent(nodes, i)),
              VApplyQuaternion(nodes[i].position,
                               bvhWorldRotation(nodes, bvhParent(nodes, i))))

HybridBodyH == Rat(175, 100)

\* bodyH / bvhHeight of lines 240-251, the box taken over the world positions
\* of all bones
hybridHeightScale(a) ==
    LET ys == {bvhWorldPosition(bvhNodes(a), bvhBones(a)[j])[2] :
                  j \in 1..Len(bvhBones(a))}
        hi == CHOOSE y \in ys : \A z \in ys : z <= y
        lo == CHOOSE y \in ys : \A z \in ys : y <= z
        m == a.opts.bodyMesh
    IN  RatDiv(IF m.present /\ ~(m.maxY < m.minY) THEN RatInt(m.maxY - m.minY)
               ELSE HybridBodyH,
               RatMax(RatInt(hi - lo), MinHeight))

\* rootDefName = mapping[bvhBones[0].name]
hybridRootDefName(a) ==
    MappingAt(hybridMapping(a.format), bvhNodes(a)[bvhBones(a)[1]].name)

hybridRootPosTrack(a) == bvhPosTracks(a, bvhNodes(a)[bvhBones(a)[1]].name)

hybridHasPositionTrack(a) ==
    /\ Truthy(hybridRootDefName(a))
    /\ hybridRootPosTrack(a) # 0
    /\ DefIndex(a.defSkel, hybridRootDefName(a)) # 0

\* the root position track of lines 378-397
hybridPositionTrack(a) ==
    LET src == TrackAt(a, hybridRootPosTrack(a))
        defBone == a.defSkel.bones[DefIndex(a.defSkel, hybridRootDefName(a))]
        Values(scale) ==
            [k \in 1..Len(src.values) |->
                [x \in 1..3 |-> ScaledAxis(defBone.position[x], src.values[k][x],
                                           src.values[1][x], scale)]]
    IN  [name |-> <<defBone.name, "position">>,
         times |-> src.times,
         values |-> Values(hybridHeightScale(a))]

\* a target skeleton of buildDefSkeleton with its rootBone.  "orphan": the
\* thigh's declared parent is not in the skeleton file, so the bone is in
\* boneByName and hangs under nothing.
HybridTargets == {"rsh", "rig", "orphan"}

HybridSkeleton(shape) ==
    IF shape = "orphan"
    THEN [wrapQ |-> QIdentity,
          rootBone |-> "DEF-spine",
          bones |-> <<
            DefBone("DEF-spine", "DEF-spine", NoParent, QIdentity, Vec(0, 4, 0)),
            DefBone("DEF-spine.001", "DEF-spine_001", "DEF-spine", RotX90,
                    Vec(0, 1, 0)),
            DefBone("DEF-thigh.L", "DEF-thigh_L", NoParent, RotX90, Vec(1, 0, 0)),
            DefBone("DEF-spine.006", "DEF-spine_006", "DEF-spine.001", QIdentity,
                    Vec(0, 1, 0)) >>]
    ELSE [wrapQ |-> DefSkeleton(shape).wrapQ,
          rootBone |-> "DEF-spine",
          bones |-> DefSkeleton(shape).bones]

HybridInputs ==
    { [MkArgs(fm, src, mo, ts, F, "rsh", PlainOpts) EXCEPT
          !.defSkel = HybridSkeleton(tgt)] :
        fm \in {"CMU", "MOCAPNET", "UNKNOWN"},
        src \in {"chain", "side", "missing", "fork"},
        mo \in {"const", "move"},
        ts \in {"all", "noQuat"},
        F \in {1, MaxFrames},
        tgt \in HybridTargets }

HybridInit ==
    /\ base \in HybridInputs
    /\ args = base
    /\ phase = "hybrid"
    /\ pc = "idle"
    /\ f = 0
    /\ bvhWorldAnimQ = NoKeys
    /\ defAnimWorldQ = NoKeys
    /\ outputQuats = NoKeys
    /\ out = NoClip
    /\ raised = FALSE
    /\ results = << >>
    /\ DetectIdle
    /\ BuildIdle
    /\ ViewersIdle

\* lines 186-286: everything before the frame loop, the early return included
HybridBegin ==
    /\ pc = "idle"
    /\ IF firstTrack(args) = 0
       THEN /\ out' = EmptyClip
            /\ pc' = "return"
            /\ UNCHANGED <<defAnimWorldQ, outputQuats>>
       ELSE /\ outputQuats' = hybridOutputQuats(args)
            /\ defAnimWorldQ' =
                  [d \in {hierarchyOrder(args)[i] : i \in 1..Len(hierarchyOrder(args))}
                      |-> QIdentity]
            /\ pc' = IF fc(args) = 0 THEN "assemble" ELSE "frame"
            /\ UNCHANGED out
    /\ UNCHANGED <<base, args, phase, f, bvhWorldAnimQ, raised, results>>
    /\ UNCHANGED <<detectVars, buildVars, viewerVars>>

\* lines 287-356: frame f, then f++
HybridFrame ==
    /\ pc = "frame"
    /\ \E nodes \in {PosedNodes(args, f)} :
          /\ args' = [args EXCEPT !.bvhResult.skeleton.nodes = nodes]
          /\ \E s \in {HybridPass(args, nodes, f, 1,
                                  [anim |-> defAnimWorldQ, quats |-> outputQuats])} :
                /\ defAnimWorldQ' = s.anim
                /\ outputQuats' = s.quats
    /\ f' = f + 1
    /\ pc' = IF f + 1 < fc(args) THEN "frame" ELSE "assemble"
    /\ UNCHANGED <<base, phase, bvhWorldAnimQ, out, raised, results>>
    /\ UNCHANGED <<detectVars, buildVars, viewerVars>>

\* lines 365-404: the BVH bones are put back to identity, then the tracks and
\* the returned clip, or the exception of a KeyframeTrack constructor
HybridAssemble ==
    /\ pc = "assemble"
    /\ args' = [args EXCEPT !.bvhResult.skeleton.nodes =
                   [i \in 1..Len(@) |->
                       IF \E j \in 1..Len(bvhBones(args)) : bvhBones(args)[j] = i
                       THEN [@[i] EXCEPT !.quaternion = QIdentity]
                       ELSE @[i]]]
    /\ IF \/ (DOMAIN outputQuats # {} /\ KeyframeTrackThrows(times(args)))
          \/ (hybridHasPositionTrack(args)
              /\ KeyframeTrackThrows(TrackAt(args, hybridRootPosTrack(args)).times))
       THEN /\ raised' = TRUE
            /\ out' = NoClip
       ELSE /\ raised' = FALSE
            /\ out' = [duration |-> args.bvhResult.clip.duration,
                       tracks |-> hybridRotationTracks(args, outputQuats)
                                  \o (IF hybridHasPositionTrack(args)
                                      THEN <<hybridPositionTrack(args)>>
                                      ELSE << >>)]
    /\ pc' = "return"
    /\ UNCHANGED <<base, phase, f, bvhWorldAnimQ, defAnimWorldQ, outputQuats,
                   results>>
    /\ UNCHANGED <<detectVars, buildVars, viewerVars>>

\* the call is over
HybridReturn ==
    /\ pc = "return"
    /\ results' = Append(results, [args |-> args, out |-> out, raised |-> raised])
    /\ pc' = "done"
    /\ UNCHANGED <<base, args, phase, f, bvhWorldAnimQ, defAnimWorldQ, outputQuats,
                   out, raised>>
    /\ UNCHANGED <<detectVars, buildVars, viewerVars>>

HybridNext == HybridBegin \/ HybridFrame \/ HybridAssemble \/ HybridReturn

HybridSpec == HybridInit /\ [][HybridNext]_vars

---------------------------------------------------------------------------
(* C30 *)

\* the target joints the walk from the root bone reaches
Walked(a) == {hierarchyOrder(a)[i] : i \in 1..Len(hierarchyOrder(a))}

\* the rotation tracks of the returned clip that still hold the zero-filled
\* buffer they were created with
UnassignedTracks ==
    {i \in RotationTrackIndexes(out) :
        \A k \in 1..Len(out.tracks[i].values) : out.tracks[i].values[k] = QZero}

\* C30 (hybrid variant, complete tracks), as stated: in a clip returned by the
\* hybrid variant every frame of every rotation track was assigned by the
\* frame loop, so no keyframe is the all-zero quaternion of the new buffer,
\* whatever the target skeleton.
C30_AsStated ==
    Returned =>
        \A i \in RotationTrackIndexes(out) :
            \A k \in 1..Len(out.tracks[i].values) : out.tracks[i].values[k] # QZero

\* the tracks of the mapped joints the walk reaches are assigned in every
\* frame
C30_WalkedAssigned ==
    (Returned /\ firstTrack(args) # 0) =>
        \A d \in Walked(args) \cap DOMAIN outputQuats :
            \A k \in 1..fc(args) : outputQuats[d][k] # QZero

=============================================================================
